---- MODULE Spec2Model ----
(***************************************************************************)
(* grestclient: a thin wrapper around http.Client.  The model follows      *)
(* src/implementation.go (type client) and the codec / mutator functions   *)
(* of src/client.go.                                                       *)
(*                                                                         *)
(* Go values are modelled as follows.                                      *)
(*  - http.Header / url.Values: a record [nil, m]; m is a function from    *)
(*    the keys present to the identity of the []string stored under the    *)
(*    key.  The backing arrays live in the heap `arr`, so that two maps    *)
(*    holding the same slice really share it.                              *)
(*  - *url.URL: a record of its fields; a path is a sequence of            *)
(*    characters.                                                          *)
(*  - error: a string, "nil" meaning no error.                             *)
(*  - a dispatch call (Get .. Delete) is one action; what happened inside  *)
(*    it is recorded, in order, in last.log.                               *)
(***************************************************************************)
EXTENDS Integers, Sequences, FiniteSets, TLC

\* ------------------------------------------------------------------ bounds
\* number of []string backing arrays the clients' default sets may hold
MaxArr == 4
\* longest value list built under one key
MaxVals == 2
\* longest mutator list a client is given
MaxMut == 2
\* longest string handed to a codec
MaxStr == 2

\* ------------------------------------------------------------- vocabulary
Clients == {1, 2}
Other(c) == 3 - c

\* F applied to the value of e
Eval(e, F(_)) == CHOOSE y \in {F(v) : v \in {e}} : TRUE

NoErr == "nil"
NoFunc == "nil"
NoHandle == "nil"
DefaultClient == "http.DefaultClient"
Handles == {"T1", "T2"}

HKeys == {"Accept", "Content-Type"}
QKeys == {"multiquery", "testquery"}
Vals == {"a", "b"}
JsonType == "application/json"

Methods == {"GET", "POST", "PUT", "PATCH", "HEAD", "OPTIONS", "DELETE"}

\* request mutators: what a caller registers
ReqMutatorKinds ==
    {"rmOk", "rmFailA", "rmFailB", "rmEdit", "JsonContentTypeMutator", "JsonAcceptMutator"}
ResMutatorKinds == {"smOk", "smFailA", "smFailB"}

StringMarshalerFunc == "StringMarshalerFunc"
JsonMarshalerFunc == "JsonMarshalerFunc"
\* a MarshalerFunc of the caller's, whose stream does not know its length
StreamMarshalerFunc == "StreamMarshalerFunc"
StringUnmarshalerFunc == "StringUnmarshalerFunc"
JsonUnmarshalerFunc == "JsonUnmarshalerFunc"

\* the empty map literal and the nil map
EmptyFn == [k \in {} |-> 0]
NilMap == [nil |-> TRUE, m |-> EmptyFn]
EmptyMap == [nil |-> FALSE, m |-> EmptyFn]

ArrIds == 1 .. MaxArr

VARIABLES
    alive,        \* which of the two client objects exist
    base,         \* client.base
    reqMutators,  \* client.reqMutators
    resMutators,  \* client.resMutators
    headers,      \* client.headers
    query,        \* client.query
    client,       \* client.client (the transport handle)
    marshaler,    \* client.marshaler
    unmarshaler,  \* client.unmarshaler
    arr,          \* heap of []string backing arrays
    last,         \* what the caller holds: the record of its dispatch call, or idle
    running       \* goroutines inside a dispatch call: where each is, and the
                  \* client fields it has read and written in that call

vars == <<alive, base, reqMutators, resMutators, headers, query, client,
          marshaler, unmarshaler, arr, last, running>>


\* ------------------------------------------------------------------- URLs
NoUser == [nil |-> TRUE, Username |-> "", Password |-> "", PasswordSet |-> FALSE]
UserPassword(u, p) == [nil |-> FALSE, Username |-> u, Password |-> p, PasswordSet |-> TRUE]
User(u) == [nil |-> FALSE, Username |-> u, Password |-> "", PasswordSet |-> FALSE]

\* cloneUrl: a new URL value built field by field; the Userinfo is rebuilt
cloneUrl(u) ==
    LET userInfo == IF ~u.User.nil
                    THEN IF u.User.PasswordSet
                         THEN UserPassword(u.User.Username, u.User.Password)
                         ELSE User(u.User.Username)
                    ELSE NoUser
    IN [Scheme |-> u.Scheme, Opaque |-> u.Opaque, User |-> userInfo, Host |-> u.Host,
        Path |-> u.Path, RawQuery |-> u.RawQuery, Fragment |-> u.Fragment]

\* URLs a caller may hand to New / SetBaseUrl (results of url.Parse)
MkUrl(user, path, q, f) ==
    [Scheme |-> "http", Opaque |-> "", User |-> user, Host |-> "example.com",
     Path |-> path, RawQuery |-> q, Fragment |-> f]
\* a *url.URL argument: nil, or a pointer to a URL
NilUrl == [nil |-> TRUE, url |-> MkUrl(NoUser, <<>>, <<>>, "")]
SomeUrl(u) == [nil |-> FALSE, url |-> u]
BasePaths == {<<>>, <<"/", "b">>}
CallPaths == {<<>>, <<"s">>, <<"/", "s">>}
RawQueries == {<<>>, <<<<"x", "1">>>>}

\* url.Values.Encode / a raw query: the sequence of key=value pairs, keys sorted
QKeyOrder == <<"multiquery", "testquery">>
RECURSIVE EncodeFrom(_, _)
EncodeFrom(q, i) ==
    IF i > Len(QKeyOrder) THEN <<>>
    ELSE LET k == QKeyOrder[i]
             vs == IF k \in DOMAIN q THEN q[k] ELSE <<>>
         IN [j \in 1 .. Len(vs) |-> <<k, vs[j]>>] \o EncodeFrom(q, i + 1)
Encode(q) == EncodeFrom(q, 1)

\* (variant) the text of the URL with the path as it is
URLStringVerbatim(u) ==
    [scheme |-> u.Scheme, userinfo |-> u.User, host |-> u.Host,
     path |-> u.Path, query |-> u.RawQuery, fragment |-> u.Fragment]

\* (*URL).String: the text of the URL, part by part.  A path that does not
\* start with "/" gets one when a host is present; "?" in a path is escaped.
EscapeChar(ch) == IF ch = "?" THEN "%3F" ELSE ch
UnescapeChar(t) == IF t = "%3F" THEN "?" ELSE t
URLString(u) ==
    [scheme |-> u.Scheme,
     userinfo |-> u.User,
     host |-> u.Host,
     path |-> (IF u.Path # <<>> /\ Head(u.Path) # "/" /\ u.Host # "" THEN <<"/">> ELSE <<>>)
              \o [i \in 1 .. Len(u.Path) |-> EscapeChar(u.Path[i])],
     query |-> u.RawQuery,
     fragment |-> u.Fragment]

\* url.Parse of such a text
ParseURL(s) ==
    [Scheme |-> s.scheme, Opaque |-> "", User |-> s.userinfo, Host |-> s.host,
     Path |-> [i \in 1 .. Len(s.path) |-> UnescapeChar(s.path[i])],
     RawQuery |-> s.query, Fragment |-> s.fragment]

\* ------------------------------------------------------------ body codecs
\* a []byte / string is a sequence of byte values
Quote == 34
NoBody == [nil |-> TRUE, type |-> "nil", s |-> <<>>]
StringBody(s) == [nil |-> FALSE, type |-> "string", s |-> s]
StringerBody(s) == [nil |-> FALSE, type |-> "Stringer", s |-> s]
StructBody == [nil |-> FALSE, type |-> "struct", s |-> <<>>]
ChanBody == [nil |-> FALSE, type |-> "chan", s |-> <<>>]

NoReadLener == [nil |-> TRUE, data |-> <<>>, unknown |-> FALSE]
\* bytes.NewBufferString(s): a ReadLener over the bytes of s
StringToReadLener(s) == [nil |-> FALSE, data |-> s, unknown |-> FALSE]
\* (variant) Len counts the bytes of every stream
ReadLenerLenCounted(r) == Len(r.data)
\* ReadLener.Len: (*bytes.Buffer).Len, or -1 from a stream of unknown length
ReadLenerLen(r) == IF r.unknown THEN -1 ELSE Len(r.data)

ErrMarshalText == "Did not know how to use the body as text."
ErrJsonUnsupportedType == "json: unsupported type"
ErrByValue == "You must pass the string by reference or pass a pointer. For example, ( &stringVar )"
ErrUnmarshalText == "Did not know how to unmarshal the text coming back."
ErrJsonNonPointer == "json: Unmarshal(non-pointer)"
ErrJsonSyntax == "json: invalid character"
ErrNilUrl == "Please specify a non nil url."
ErrTransport == "transport error"
ErrRead == "body read error"

\* (variant) the text goes out between quotes
MarshalTextQuoted(v) ==
    CASE v.type \in {"Stringer", "string"} ->
            [r |-> StringToReadLener(<<Quote>> \o v.s \o <<Quote>>), err |-> NoErr]
      [] OTHER -> [r |-> NoReadLener, err |-> ErrMarshalText]

\* StringMarshalerFunc: a Stringer or a string, nothing else
MarshalText(v) ==
    CASE v.type = "Stringer" -> [r |-> StringToReadLener(v.s), err |-> NoErr]
      [] v.type = "string" -> [r |-> StringToReadLener(v.s), err |-> NoErr]
      [] OTHER -> [r |-> NoReadLener, err |-> ErrMarshalText]

\* json.Marshal + ByteSliceToReadLener: a string is quoted, a struct becomes
\* an object, a channel is not supported
MarshalJson(v) ==
    CASE v.type = "string" -> [r |-> [nil |-> FALSE, data |-> <<Quote>> \o v.s \o <<Quote>>, unknown |-> FALSE], err |-> NoErr]
      [] v.type = "struct" -> [r |-> [nil |-> FALSE, data |-> <<123, 125>>, unknown |-> FALSE], err |-> NoErr]
      [] v.type = "Stringer" -> [r |-> [nil |-> FALSE, data |-> <<123, 125>>, unknown |-> FALSE], err |-> NoErr]
      [] OTHER -> [r |-> NoReadLener, err |-> ErrJsonUnsupportedType]

\* the caller's marshaler: the bytes of a string or a Stringer as a stream
\* that reports -1
ErrMarshalStream == "stream marshaler error"
MarshalStream(v) ==
    IF v.type \in {"Stringer", "string"}
    THEN [r |-> [nil |-> FALSE, data |-> v.s, unknown |-> TRUE], err |-> NoErr]
    ELSE [r |-> NoReadLener, err |-> ErrMarshalStream]

Marshal(f, v) ==
    CASE f = JsonMarshalerFunc -> MarshalJson(v)
      [] f = StreamMarshalerFunc -> MarshalStream(v)
      [] OTHER -> MarshalText(v)

\* destinations a caller may pass: 1 and 2 are *string, 3 is a string passed
\* by value, 4 an int passed by value; 0 is a nil interface stored in the map
DestIds == {1, 2, 3, 4}
NilDest == 0
DestType(d) == CASE d = 3 -> "string" [] d = 4 -> "int" [] OTHER -> "*string"
\* what every destination holds before a call
OldValue == <<111>>

\* StringUnmarshalerFunc: [err, set, value]
UnmarshalText(b, d) ==
    CASE DestType(d) = "*string" -> [err |-> NoErr, set |-> TRUE, value |-> b]
      [] DestType(d) = "string" -> [err |-> ErrByValue, set |-> FALSE, value |-> <<>>]
      [] OTHER -> [err |-> ErrUnmarshalText, set |-> FALSE, value |-> <<>>]

\* json.Unmarshal into a string destination: the destination must be a
\* pointer and the bytes a JSON string
UnmarshalJson(b, d) ==
    IF DestType(d) # "*string"
    THEN [err |-> ErrJsonNonPointer, set |-> FALSE, value |-> <<>>]
    ELSE IF Len(b) >= 2 /\ b[1] = Quote /\ b[Len(b)] = Quote
         THEN [err |-> NoErr, set |-> TRUE, value |-> SubSeq(b, 2, Len(b) - 1)]
         ELSE [err |-> ErrJsonSyntax, set |-> FALSE, value |-> <<>>]

Unmarshal(f, b, d) == IF f = JsonUnmarshalerFunc THEN UnmarshalJson(b, d) ELSE UnmarshalText(b, d)

\* ------------------------------------------------- header and query sets
\* the value lists a map holds, read through the heap h
Content(M, h) == [k \in DOMAIN M.m |-> h[M.m[k]]]

\* array identities held by the default sets hs, qs of the live clients
Held(hs, qs, al) ==
    UNION {{hs[c].m[k] : k \in DOMAIN hs[c].m} \cup {qs[c].m[k] : k \in DOMAIN qs[c].m} : c \in al}

\* Array names are arbitrary: after an operation that binds or releases arrays
\* they are named 1, 2, ... in the order the sets of client 1, then of client 2,
\* reach them (headers before query, keys in a fixed order); arrays nobody
\* holds are collected.
HKeyOrder == <<"Accept", "Content-Type">>
SlotIds(hs, qs, al) ==
    [j \in 1 .. 8 |->
        LET c == IF j <= 4 THEN 1 ELSE 2
            n == ((j - 1) % 4) + 1
            M == IF n <= 2 THEN hs[c] ELSE qs[c]
            k == IF n <= 2 THEN HKeyOrder[n] ELSE QKeyOrder[n - 2]
        IN IF c \in al /\ k \in DOMAIN M.m THEN M.m[k] ELSE 0]
RECURSIVE FirstUse(_, _, _)
FirstUse(ids, j, acc) ==
    IF j > Len(ids) THEN acc
    ELSE FirstUse(ids, j + 1,
                  IF ids[j] = 0 \/ \E x \in 1 .. Len(acc) : acc[x] = ids[j]
                  THEN acc ELSE Append(acc, ids[j]))
Rename(M, order) ==
    [nil |-> M.nil, m |-> [k \in DOMAIN M.m |-> CHOOSE j \in 1 .. Len(order) : order[j] = M.m[k]]]
Normal(hs, qs, h, al) ==
    Eval(FirstUse(SlotIds(hs, qs, al), 1, <<>>), LAMBDA order :
         [headers |-> [c \in Clients |-> IF c \in al THEN Rename(hs[c], order) ELSE hs[c]],
          query |-> [c \in Clients |-> IF c \in al THEN Rename(qs[c], order) ELSE qs[c]],
          arr |-> [j \in ArrIds |-> IF j <= Len(order) THEN h[order[j]] ELSE <<>>]])

FreeIds == ArrIds \ Held(headers, query, alive)
\* n array identities that are free, as a sequence (the lowest ones)
RECURSIVE LowestOf(_, _)
LowestOf(S, n) ==
    IF n = 0 \/ S = {} THEN <<>>
    ELSE LET x == CHOOSE y \in S : \A z \in S : y <= z
         IN <<x>> \o LowestOf(S \ {x}, n - 1)

\* m with key k bound to v
Bind(m, k, v) == [x \in DOMAIN m \cup {k} |-> IF x = k THEN v ELSE m[x]]
\* m without key k
Unbind(m, k) == [x \in DOMAIN m \ {k} |-> m[x]]

\* setupHeaders(headers ...http.Header): a new map; the maps are scanned in
\* order and each entry overwrites what an earlier map stored under its key.
\* The stored value is the []string itself.
RECURSIVE setupHeaders(_)
setupHeaders(hs) ==
    IF hs = <<>> THEN EmptyFn
    ELSE LET final == setupHeaders(SubSeq(hs, 1, Len(hs) - 1))
             current == hs[Len(hs)]
         IN [i \in DOMAIN final \cup DOMAIN current |->
                IF i \in DOMAIN current THEN current[i] ELSE final[i]]

\* setupQuery(queries ...url.Values): the same for query sets
RECURSIVE setupQuery(_)
setupQuery(qs) ==
    IF qs = <<>> THEN EmptyFn
    ELSE LET final == setupQuery(SubSeq(qs, 1, Len(qs) - 1))
             current == qs[Len(qs)]
         IN [i \in DOMAIN final \cup DOMAIN current |->
                IF i \in DOMAIN current THEN current[i] ELSE final[i]]

\* headerCopy: nil for nil, else a new map holding the same []string values
headerCopy(h) ==
    IF h.nil THEN NilMap ELSE [nil |-> FALSE, m |-> [i \in DOMAIN h.m |-> h.m[i]]]

\* queryCopy: the same for a query set
queryCopy(q) ==
    IF q.nil THEN NilMap ELSE [nil |-> FALSE, m |-> [i \in DOMAIN q.m |-> q.m[i]]]

\* identities the per-call sets and the arrays a mutator allocates get
\* during one dispatch call (beyond the heap's own)
HIdx(k) == IF k = "Accept" THEN 1 ELSE 2
QIdx(k) == IF k = "multiquery" THEN 1 ELSE 2
OverrideId(k) == MaxArr + HIdx(k)
NewId(k) == MaxArr + 2 + HIdx(k)
OverrideQId(k) == MaxArr + 4 + QIdx(k)
CallIds == 1 .. (MaxArr + 6)

\* ------------------------------------------------------------- mutators
Ev(e, i) == [e |-> e, i |-> i]

\* http.Header.Add(k, v): h[k] = append(h[k], v).  Every list the model
\* builds fills its array, so append stores the longer list in a new array.
HeaderAdd(H, h, k, v) ==
    LET old == IF k \in DOMAIN H THEN h[H[k]] ELSE <<>>
    IN [Header |-> Bind(H, k, NewId(k)), heap |-> [h EXCEPT ![NewId(k)] = old \o <<v>>]]

\* JsonContentTypeMutator
JsonContentTypeMutator(H, h) == HeaderAdd(H, h, "Content-Type", JsonType)
\* JsonAcceptMutator
JsonAcceptMutator(H, h) == HeaderAdd(H, h, "Accept", JsonType)

\* a request mutator applied to the request whose header map is H, on heap h
\*   rmOk     returns nil           rmFailA, rmFailB  return an error
\*   rmEdit   r.Header["Content-Type"][0] = "edited" when there is one
ApplyRequestMutator(m, H, h) ==
    CASE m = "rmFailA" -> [err |-> "errReqA", Header |-> H, heap |-> h]
      [] m = "rmFailB" -> [err |-> "errReqB", Header |-> H, heap |-> h]
      [] m = "rmEdit" ->
            [err |-> NoErr, Header |-> H,
             heap |-> IF "Content-Type" \in DOMAIN H /\ h[H["Content-Type"]] # <<>>
                      THEN [h EXCEPT ![H["Content-Type"]] = [@ EXCEPT ![1] = "edited"]]
                      ELSE h]
      [] m = "JsonContentTypeMutator" ->
            [err |-> NoErr, Header |-> JsonContentTypeMutator(H, h).Header,
             heap |-> JsonContentTypeMutator(H, h).heap]
      [] m = "JsonAcceptMutator" ->
            [err |-> NoErr, Header |-> JsonAcceptMutator(H, h).Header,
             heap |-> JsonAcceptMutator(H, h).heap]
      [] OTHER -> [err |-> NoErr, Header |-> H, heap |-> h]

ApplyResponseMutator(m) ==
    CASE m = "smFailA" -> "errResA"
      [] m = "smFailB" -> "errResB"
      [] OTHER -> NoErr

\* (variant) the loop goes on after a failing mutator and keeps the last error
RECURSIVE RunRequestMutatorsNoAbort(_, _, _)
RunRequestMutatorsNoAbort(ms, i, st) ==
    IF i > Len(ms) THEN st
    ELSE Eval(ApplyRequestMutator(ms[i], st.Header, st.heap), LAMBDA a :
         Eval([err |-> IF a.err # NoErr THEN a.err ELSE st.err,
               Header |-> a.Header, heap |-> a.heap,
               log |-> Append(st.log, Ev("reqmut", i))], LAMBDA st2 :
         RunRequestMutatorsNoAbort(ms, i + 1, st2)))

\* (variant) the response loop goes on after a failing mutator
RECURSIVE RunResponseMutatorsNoAbort(_, _, _)
RunResponseMutatorsNoAbort(ms, i, st) ==
    IF i > Len(ms) THEN st
    ELSE Eval([err |-> IF ApplyResponseMutator(ms[i]) # NoErr
                       THEN ApplyResponseMutator(ms[i]) ELSE st.err,
               log |-> Append(st.log, Ev("resmut", i))], LAMBDA st2 :
         RunResponseMutatorsNoAbort(ms, i + 1, st2))

\* the loop over c.RequestMutators() in do: mutator i runs, and the loop
\* ends at the first error
RECURSIVE RunRequestMutators(_, _, _)
RunRequestMutators(ms, i, st) ==
    IF i > Len(ms) THEN st
    ELSE Eval(ApplyRequestMutator(ms[i], st.Header, st.heap), LAMBDA a :
         Eval([err |-> a.err, Header |-> a.Header, heap |-> a.heap,
               log |-> Append(st.log, Ev("reqmut", i))], LAMBDA st2 :
         IF a.err # NoErr THEN st2 ELSE RunRequestMutators(ms, i + 1, st2)))

\* (variant) the response loop runs from the end of the list to its start
RECURSIVE RunResponseMutatorsBackwards(_, _, _)
RunResponseMutatorsBackwards(ms, i, st) ==
    IF i > Len(ms) THEN st
    ELSE Eval([err |-> ApplyResponseMutator(ms[Len(ms) + 1 - i]),
               log |-> Append(st.log, Ev("resmut", Len(ms) + 1 - i))], LAMBDA st2 :
         IF st2.err # NoErr THEN st2 ELSE RunResponseMutatorsBackwards(ms, i + 1, st2))

\* the loop over c.ResponseMutators() in do
RECURSIVE RunResponseMutators(_, _, _)
RunResponseMutators(ms, i, st) ==
    IF i > Len(ms) THEN st
    ELSE Eval([err |-> ApplyResponseMutator(ms[i]),
               log |-> Append(st.log, Ev("resmut", i))], LAMBDA st2 :
         IF st2.err # NoErr THEN st2 ELSE RunResponseMutators(ms, i + 1, st2))

\* --------------------------------------------------------------- dispatch
NoResponse == [nil |-> TRUE, StatusCode |-> 0, ContentLength |-> 0, Body |-> <<>>]
NoRequest ==
    [nil |-> TRUE, Method |-> "", URL |-> MkUrl(NoUser, <<>>, <<>>, ""), Header |-> EmptyFn,
     ContentLength |-> 0, Body |-> NoReadLener]
NilUnmarshalMap == [nil |-> TRUE, m |-> EmptyFn]
FreshDest == [d \in DestIds |-> OldValue]

\* what the transport answers to one request: an error, or a response whose
\* body may fail to be read
TransportError ==
    [err |-> TRUE, StatusCode |-> 0, ContentLength |-> 0, Body |-> <<>>, readErr |-> FALSE]
Answer(status, cl, body, readErr) ==
    [err |-> FALSE, StatusCode |-> status, ContentLength |-> cl, Body |-> body, readErr |-> readErr]

\* GetHttpClient: the handle, http.DefaultClient once none is set
GetHttpClient(c) == IF client[c] = NoHandle THEN DefaultClient ELSE client[c]

\* the heap one dispatch call works on: the clients' arrays and the arrays of
\* the per-call sets H and Q
CallHeap(H, Q) ==
    [i \in CallIds |->
        IF i \in ArrIds THEN arr[i]
        ELSE IF \E k \in DOMAIN H.m : i = OverrideId(k)
             THEN H.m[CHOOSE k \in DOMAIN H.m : i = OverrideId(k)]
             ELSE IF \E k \in DOMAIN Q.m : i = OverrideQId(k)
                  THEN Q.m[CHOOSE k \in DOMAIN Q.m : i = OverrideQId(k)]
                  ELSE <<>>]

\* (variant) a marshal error is not returned: the request goes out without a body
prepareRequestIgnoringMarshalError(c, method, path, H, Q, body, h) ==
    LET reqUrl == [cloneUrl(base[c]) EXCEPT !.Path = @ \o path]
        hdrs == setupHeaders(<<headers[c].m, [k \in DOMAIN H.m |-> OverrideId(k)]>>)
        qry == setupQuery(<<query[c].m, [k \in DOMAIN Q.m |-> OverrideQId(k)]>>)
        f == IF marshaler[c] = NoFunc THEN StringMarshalerFunc ELSE marshaler[c]
        u == ParseURL(URLString(reqUrl))
        r == [nil |-> FALSE, Method |-> method,
              URL |-> [u EXCEPT !.RawQuery = Encode([k \in DOMAIN qry |-> h[qry[k]]])],
              Header |-> hdrs, ContentLength |-> 0, Body |-> NoReadLener]
        mr == Marshal(f, body)
    IN IF body.nil
       THEN [err |-> NoErr, r |-> r, marshaler |-> f, log |-> <<>>]
       ELSE [err |-> NoErr,
             r |-> [r EXCEPT !.ContentLength = ReadLenerLen(mr.r), !.Body = mr.r],
             marshaler |-> f, log |-> <<Ev("marshal", 0)>>]

\* (variant) a client without a marshaler gets the JSON one
prepareRequestJsonDefault(c, method, path, H, Q, body, h) ==
    LET reqUrl == [cloneUrl(base[c]) EXCEPT !.Path = @ \o path]
        hdrs == setupHeaders(<<headers[c].m, [k \in DOMAIN H.m |-> OverrideId(k)]>>)
        qry == setupQuery(<<query[c].m, [k \in DOMAIN Q.m |-> OverrideQId(k)]>>)
        f == IF marshaler[c] = NoFunc THEN JsonMarshalerFunc ELSE marshaler[c]
        u == ParseURL(URLString(reqUrl))
        r == [nil |-> FALSE, Method |-> method,
              URL |-> [u EXCEPT !.RawQuery = Encode([k \in DOMAIN qry |-> h[qry[k]]])],
              Header |-> hdrs, ContentLength |-> 0, Body |-> NoReadLener]
        mr == Marshal(f, body)
    IN IF body.nil
       THEN [err |-> NoErr, r |-> r, marshaler |-> f, log |-> <<>>]
       ELSE IF mr.err # NoErr
            THEN [err |-> mr.err, r |-> NoRequest, marshaler |-> f, log |-> <<Ev("marshal", 0)>>]
            ELSE [err |-> NoErr,
                  r |-> [r EXCEPT !.ContentLength = ReadLenerLen(mr.r), !.Body = mr.r],
                  marshaler |-> f, log |-> <<Ev("marshal", 0)>>]

\* (variant) the merged query is put after the query of the base URL
prepareRequestKeepingBaseQuery(c, method, path, H, Q, body, h) ==
    LET reqUrl == [cloneUrl(base[c]) EXCEPT !.Path = @ \o path]
        hdrs == setupHeaders(<<headers[c].m, [k \in DOMAIN H.m |-> OverrideId(k)]>>)
        qry == setupQuery(<<query[c].m, [k \in DOMAIN Q.m |-> OverrideQId(k)]>>)
        f == IF marshaler[c] = NoFunc THEN StringMarshalerFunc ELSE marshaler[c]
        u == ParseURL(URLString(reqUrl))
        r == [nil |-> FALSE, Method |-> method,
              URL |-> [u EXCEPT !.RawQuery = @ \o Encode([k \in DOMAIN qry |-> h[qry[k]]])],
              Header |-> hdrs, ContentLength |-> 0, Body |-> NoReadLener]
        mr == Marshal(f, body)
    IN IF body.nil
       THEN [err |-> NoErr, r |-> r, marshaler |-> f, log |-> <<>>]
       ELSE IF mr.err # NoErr
            THEN [err |-> mr.err, r |-> NoRequest, marshaler |-> f, log |-> <<Ev("marshal", 0)>>]
            ELSE [err |-> NoErr,
                  r |-> [r EXCEPT !.ContentLength = ReadLenerLen(mr.r), !.Body = mr.r],
                  marshaler |-> f, log |-> <<Ev("marshal", 0)>>]

\* prepareRequest: [err, r, marshaler, log]
prepareRequest(c, method, path, H, Q, body, h) ==
    LET reqUrl == [cloneUrl(base[c]) EXCEPT !.Path = @ \o path]
        hdrs == setupHeaders(<<headers[c].m, [k \in DOMAIN H.m |-> OverrideId(k)]>>)
        qry == setupQuery(<<query[c].m, [k \in DOMAIN Q.m |-> OverrideQId(k)]>>)
        f == IF marshaler[c] = NoFunc THEN StringMarshalerFunc ELSE marshaler[c]
        \* http.NewRequest(method, reqUrl.String(), nil)
        u == ParseURL(URLString(reqUrl))
        r == [nil |-> FALSE, Method |-> method,
              URL |-> [u EXCEPT !.RawQuery = Encode([k \in DOMAIN qry |-> h[qry[k]]])],
              Header |-> hdrs, ContentLength |-> 0, Body |-> NoReadLener]
        mr == Marshal(f, body)
    IN IF body.nil
       THEN [err |-> NoErr, r |-> r, marshaler |-> f, log |-> <<>>]
       ELSE IF mr.err # NoErr
            THEN [err |-> mr.err, r |-> NoRequest, marshaler |-> f, log |-> <<Ev("marshal", 0)>>]
            ELSE [err |-> NoErr,
                  r |-> [r EXCEPT !.ContentLength = ReadLenerLen(mr.r), !.Body = mr.r],
                  marshaler |-> f, log |-> <<Ev("marshal", 0)>>]

\* the request as the transport (or whoever looks at it) reads it: the
\* header map with its value lists
Snapshot(r, H, h) == [r EXCEPT !.Header = [k \in DOMAIN H |-> h[H[k]]]]

\* (variant) the entry of the lowest status code is taken, whatever the response's
DestinationOfFirstKey(unmarshalMap, response) ==
    IF DOMAIN unmarshalMap.m # {}
    THEN [ok |-> TRUE,
          destination |-> unmarshalMap.m[CHOOSE s \in DOMAIN unmarshalMap.m :
                                            \A t \in DOMAIN unmarshalMap.m : s <= t]]
    ELSE [ok |-> FALSE, destination |-> NilDest]

\* (variant) a status code without an entry decodes into the first destination
DestinationDefaulting(unmarshalMap, response) ==
    IF response.StatusCode \in DOMAIN unmarshalMap.m
    THEN [ok |-> TRUE, destination |-> unmarshalMap.m[response.StatusCode]]
    ELSE [ok |-> TRUE, destination |-> 1]

\* destination, ok := unmarshalMap[response.StatusCode]
Destination(unmarshalMap, response) ==
    IF response.StatusCode \in DOMAIN unmarshalMap.m
    THEN [ok |-> TRUE, destination |-> unmarshalMap.m[response.StatusCode]]
    ELSE [ok |-> FALSE, destination |-> NilDest]

\* the err that do tests after the decode block (`if err != nil`): outer is
\* the variable declared at the top of do, inner the one declared together
\* with body inside the block, which received the unmarshaler's result
ErrAfterDecode(outer, inner) == outer

\* (variant) the body is left open when a response mutator fails
doLeavingBodyOpen(c, r, h, log, unmarshalMap, tr) ==
    Eval(RunRequestMutators(reqMutators[c], 1,
            [err |-> NoErr, Header |-> r.Header, heap |-> h, log |-> log]), LAMBDA rq :
    Eval([resp |-> NoResponse, err |-> rq.err, log |-> rq.log, heap |-> rq.heap,
          sent |-> NoRequest, transport |-> NoHandle, client |-> client[c],
          unmarshaler |-> unmarshaler[c], dest |-> FreshDest, decodeErr |-> NoErr], LAMBDA out0 :
    IF rq.err # NoErr THEN out0
    ELSE
    Eval([out0 EXCEPT !.log = Append(@, Ev("transport", 0)),
                      !.sent = Snapshot(r, rq.Header, rq.heap),
                      !.transport = GetHttpClient(c), !.client = GetHttpClient(c)], LAMBDA out1 :
    IF tr.err THEN [out1 EXCEPT !.err = ErrTransport]
    ELSE
    Eval([nil |-> FALSE, StatusCode |-> tr.StatusCode,
          ContentLength |-> tr.ContentLength, Body |-> tr.Body], LAMBDA response :
    Eval(RunResponseMutators(resMutators[c], 1, [err |-> NoErr, log |-> out1.log]), LAMBDA rs :
    IF rs.err # NoErr
    THEN [out1 EXCEPT !.resp = response, !.err = rs.err, !.log = rs.log]
    ELSE
    Eval(IF unmarshaler[c] = NoFunc THEN StringUnmarshalerFunc ELSE unmarshaler[c], LAMBDA un :
    Eval(Destination(unmarshalMap, response), LAMBDA found :
    IF ~(/\ ~unmarshalMap.nil
         /\ (response.ContentLength > 0 \/ response.ContentLength = -1)
         /\ found.ok
         /\ found.destination # NilDest)
    THEN [out1 EXCEPT !.resp = response, !.unmarshaler = un,
                      !.log = Append(rs.log, Ev("close", 0))]
    ELSE IF tr.readErr
    THEN [out1 EXCEPT !.resp = response, !.unmarshaler = un, !.err = ErrRead,
                      !.log = rs.log \o <<Ev("read", 0), Ev("close", 0)>>]
    ELSE
    Eval(Unmarshal(un, tr.Body, found.destination), LAMBDA res :
         [out1 EXCEPT
            !.resp = response, !.unmarshaler = un,
            !.log = rs.log \o <<Ev("read", 0), Ev("unmarshal", found.destination),
                                Ev("close", 0)>>,
            !.decodeErr = res.err,
            !.dest = IF res.set THEN [@ EXCEPT ![found.destination] = res.value] ELSE @,
            !.err = ErrAfterDecode(NoErr, res.err)]))))))))

\* do: [resp, err, log, heap, sent, transport, client, unmarshaler, dest, decodeErr]
\*   err        the error do returns
\*   decodeErr  what the unmarshaler returned, when it ran
do(c, r, h, log, unmarshalMap, tr) ==
    Eval(RunRequestMutators(reqMutators[c], 1,
            [err |-> NoErr, Header |-> r.Header, heap |-> h, log |-> log]), LAMBDA rq :
    Eval([resp |-> NoResponse, err |-> rq.err, log |-> rq.log, heap |-> rq.heap,
          sent |-> NoRequest, transport |-> NoHandle, client |-> client[c],
          unmarshaler |-> unmarshaler[c], dest |-> FreshDest, decodeErr |-> NoErr], LAMBDA out0 :
    IF rq.err # NoErr THEN out0
    ELSE
    \* client := c.GetHttpClient(); response, err = client.Do(r)
    Eval([out0 EXCEPT !.log = Append(@, Ev("transport", 0)),
                      !.sent = Snapshot(r, rq.Header, rq.heap),
                      !.transport = GetHttpClient(c), !.client = GetHttpClient(c)], LAMBDA out1 :
    IF tr.err THEN [out1 EXCEPT !.err = ErrTransport]
    ELSE
    Eval([nil |-> FALSE, StatusCode |-> tr.StatusCode,
          ContentLength |-> tr.ContentLength, Body |-> tr.Body], LAMBDA response :
    Eval(RunResponseMutators(resMutators[c], 1, [err |-> NoErr, log |-> out1.log]), LAMBDA rs :
    \* defer response.Body.Close() runs on every return from here on
    IF rs.err # NoErr
    THEN [out1 EXCEPT !.resp = response, !.err = rs.err,
                      !.log = Append(rs.log, Ev("close", 0))]
    ELSE
    Eval(IF unmarshaler[c] = NoFunc THEN StringUnmarshalerFunc ELSE unmarshaler[c], LAMBDA un :
    Eval(Destination(unmarshalMap, response), LAMBDA found :
    IF ~(/\ ~unmarshalMap.nil
         /\ (response.ContentLength > 0 \/ response.ContentLength = -1)
         /\ found.ok
         /\ found.destination # NilDest)
    THEN [out1 EXCEPT !.resp = response, !.unmarshaler = un,
                      !.log = Append(rs.log, Ev("close", 0))]
    ELSE IF tr.readErr
    THEN [out1 EXCEPT !.resp = response, !.unmarshaler = un, !.err = ErrRead,
                      !.log = rs.log \o <<Ev("read", 0), Ev("close", 0)>>]
    ELSE
    \* the unmarshaler's result goes to the err declared with body, in the
    \* inner block; the err that do tests and returns afterwards is the
    \* outer one, still nil from client.Do
    Eval(Unmarshal(un, tr.Body, found.destination), LAMBDA res :
         [out1 EXCEPT
            !.resp = response, !.unmarshaler = un,
            !.log = rs.log \o <<Ev("read", 0), Ev("unmarshal", found.destination),
                                Ev("close", 0)>>,
            !.decodeErr = res.err,
            !.dest = IF res.set THEN [@ EXCEPT ![found.destination] = res.value] ELSE @,
            !.err = ErrAfterDecode(NoErr, res.err)]))))))))

\* ------------------------------------------------------------ the caller
NoSnap == [base |-> MkUrl(NoUser, <<>>, <<>>, ""), headers |-> EmptyFn, query |-> EmptyFn]
\* what a caller observes of client c's defaults
Defaults(c) ==
    [base |-> base[c], headers |-> Content(headers[c], arr), query |-> Content(query[c], arr)]

NoCall(op, c, err) ==
    [op |-> op, c |-> c, err |-> err, resp |-> NoResponse, log |-> <<>>,
     sent |-> NoRequest, transport |-> NoHandle, dest |-> FreshDest, decodeErr |-> NoErr,
     merged |-> EmptyFn, mergedQ |-> EmptyFn, pre |-> NoSnap,
     H |-> NilMap, Q |-> NilMap, Hafter |-> EmptyFn, Qafter |-> EmptyFn,
     body |-> NoBody, unmarshalMap |-> NilUnmarshalMap, tr |-> TransportError,
     u |-> NilUrl, path |-> <<>>, ret |-> NilMap, retClient |-> NoHandle,
     codec |-> [marshaler |-> NoFunc, unmarshaler |-> NoFunc], retList |-> <<>>]

IsCall(l) == l.op \in Methods

\* one verb call: prepareRequest, then do unless prepareRequest failed
Call(c, method, path, H, Q, body, unmarshalMap, tr) ==
    /\ c \in alive /\ ~IsCall(last)
    /\ \E h \in {CallHeap(H, Q)} :
       \E p \in {prepareRequest(c, method, path, H, Q, body, h)} :
       \E hm \in {setupHeaders(<<headers[c].m, [k \in DOMAIN H.m |-> OverrideId(k)]>>)} :
       \E qm \in {setupQuery(<<query[c].m, [k \in DOMAIN Q.m |-> OverrideQId(k)]>>)} :
       \E rec \in {[NoCall(method, c, p.err) EXCEPT
                      !.merged = [k \in DOMAIN hm |-> h[hm[k]]],
                      !.mergedQ = [k \in DOMAIN qm |-> h[qm[k]]],
                      !.pre = Defaults(c), !.H = H, !.Q = Q,
                      !.Hafter = H.m, !.Qafter = Q.m,
                      !.log = p.log, !.body = body, !.path = path,
                      !.codec = [marshaler |-> marshaler[c], unmarshaler |-> unmarshaler[c]],
                      !.unmarshalMap = unmarshalMap, !.tr = tr]} :
          /\ marshaler' = [marshaler EXCEPT ![c] = p.marshaler]
          /\ IF p.err # NoErr
             THEN /\ last' = rec
                  /\ UNCHANGED <<client, unmarshaler, arr>>
             ELSE \E d \in {do(c, p.r, h, p.log, unmarshalMap, tr)} :
                  /\ last' = [rec EXCEPT
                        !.err = d.err, !.resp = d.resp, !.log = d.log, !.sent = d.sent,
                        !.transport = d.transport, !.dest = d.dest, !.decodeErr = d.decodeErr,
                        !.Hafter = [k \in DOMAIN H.m |-> d.heap[OverrideId(k)]],
                        !.Qafter = [k \in DOMAIN Q.m |-> d.heap[OverrideQId(k)]]]
                  /\ client' = [client EXCEPT ![c] = d.client]
                  /\ unmarshaler' = [unmarshaler EXCEPT ![c] = d.unmarshaler]
                  /\ arr' = [i \in ArrIds |-> d.heap[i]]
    /\ UNCHANGED <<alive, base, reqMutators, resMutators, headers, query, running>>

Get(c, path, H, Q, unmarshalMap, tr) == Call(c, "GET", path, H, Q, NoBody, unmarshalMap, tr)
Post(c, path, H, Q, postBody, unmarshalMap, tr) ==
    Call(c, "POST", path, H, Q, postBody, unmarshalMap, tr)
\* (variant) Put prepares a POST request
PutAsPost(c, path, H, Q, putBody, unmarshalMap, tr) ==
    Call(c, "POST", path, H, Q, putBody, unmarshalMap, tr)
Put(c, path, H, Q, putBody, unmarshalMap, tr) ==
    Call(c, "PUT", path, H, Q, putBody, unmarshalMap, tr)
Patch(c, path, H, Q, patchBody, unmarshalMap, tr) ==
    Call(c, "PATCH", path, H, Q, patchBody, unmarshalMap, tr)
\* (variant) Head hands do a map from every status code to a destination
HeadVerbDecoding(c, path, H, Q, tr) ==
    Call(c, "HEAD", path, H, Q, NoBody,
         [nil |-> FALSE, m |-> [s \in {200, 404, 500} |-> 1]], tr)
\* client.Head (Head is the Sequences operator)
HeadVerb(c, path, H, Q, tr) == Call(c, "HEAD", path, H, Q, NoBody, NilUnmarshalMap, tr)
Options(c, path, H, Q, optionsBody, unmarshalMap, tr) ==
    Call(c, "OPTIONS", path, H, Q, optionsBody, unmarshalMap, tr)
Delete(c, path, H, Q, unmarshalMap, tr) ==
    Call(c, "DELETE", path, H, Q, NoBody, unmarshalMap, tr)

\* ----------------------------------------------------- concurrent callers
\* Goroutines that each make one dispatch call at a time on a shared client.
\* A call is a sequence of accesses to the client's fields, taken in the
\* order of prepareRequest and do; each goroutine records the fields it has
\* read (rd) and written (wr) since it entered its call.
Goroutines == {1, 2}
Resting == [pc |-> "idle", c |-> 1, rd |-> {}, wr |-> {}]

\* goroutine t goes on to pc, having read the fields rd and written wr
Goes(t, pc, rd, wr) ==
    running' = [running EXCEPT ![t] = [@ EXCEPT !.pc = pc, !.rd = @ \cup rd, !.wr = @ \cup wr]]

\* no goroutine is inside a call
Quiet == \A t \in Goroutines : running[t].pc = "idle"

\* goroutine t calls a verb of client c
Enter(t, c) ==
    /\ running[t].pc = "idle" /\ c \in alive /\ ~IsCall(last)
    /\ running' = [running EXCEPT ![t] = [pc |-> "prepareRequest", c |-> c, rd |-> {}, wr |-> {}]]
    /\ UNCHANGED <<alive, base, reqMutators, resMutators, headers, query, client,
                   marshaler, unmarshaler, arr, last>>

\* prepareRequest up to `if c.marshaler == nil`
prepareRequestReads(t) ==
    /\ running[t].pc = "prepareRequest"
    /\ Goes(t, IF marshaler[running[t].c] = NoFunc THEN "marshalerDefault" ELSE "do",
            {"base", "headers", "query", "marshaler"}, {})
    /\ UNCHANGED <<alive, base, reqMutators, resMutators, headers, query, client,
                   marshaler, unmarshaler, arr, last>>

\* c.marshaler = StringMarshalerFunc
prepareRequestDefault(t) ==
    /\ running[t].pc = "marshalerDefault"
    /\ marshaler' = [marshaler EXCEPT ![running[t].c] = StringMarshalerFunc]
    /\ Goes(t, "do", {}, {"marshaler"})
    /\ UNCHANGED <<alive, base, reqMutators, resMutators, headers, query, client,
                   unmarshaler, arr, last>>

\* do up to `if c.client == nil` in GetHttpClient
doReads(t) ==
    /\ running[t].pc = "do"
    /\ Goes(t, IF client[running[t].c] = NoHandle THEN "clientDefault" ELSE "transport",
            {"marshaler", "reqMutators", "client"}, {})
    /\ UNCHANGED <<alive, base, reqMutators, resMutators, headers, query, client,
                   marshaler, unmarshaler, arr, last>>

\* c.client = http.DefaultClient
GetHttpClientDefault(t) ==
    /\ running[t].pc = "clientDefault"
    /\ client' = [client EXCEPT ![running[t].c] = DefaultClient]
    /\ Goes(t, "transport", {}, {"client"})
    /\ UNCHANGED <<alive, base, reqMutators, resMutators, headers, query,
                   marshaler, unmarshaler, arr, last>>

\* client.Do(r) and, when it answers, do up to `if c.unmarshaler == nil`
doTransport(t, answered) ==
    /\ running[t].pc = "transport"
    /\ IF ~answered THEN Goes(t, "return", {"client"}, {})
       ELSE Goes(t, IF unmarshaler[running[t].c] = NoFunc THEN "unmarshalerDefault"
                    ELSE "return",
                 {"client", "resMutators", "unmarshaler"}, {})
    /\ UNCHANGED <<alive, base, reqMutators, resMutators, headers, query, client,
                   marshaler, unmarshaler, arr, last>>

\* c.unmarshaler = StringUnmarshalerFunc
doDefault(t) ==
    /\ running[t].pc = "unmarshalerDefault"
    /\ unmarshaler' = [unmarshaler EXCEPT ![running[t].c] = StringUnmarshalerFunc]
    /\ Goes(t, "return", {}, {"unmarshaler"})
    /\ UNCHANGED <<alive, base, reqMutators, resMutators, headers, query, client,
                   marshaler, arr, last>>

\* the call returns to goroutine t
Return(t) ==
    /\ running[t].pc = "return"
    /\ running' = [running EXCEPT ![t] = [Resting EXCEPT !.c = running[t].c]]
    /\ UNCHANGED <<alive, base, reqMutators, resMutators, headers, query, client,
                   marshaler, unmarshaler, arr, last>>

\* ---------------------------------------------------------- configuration
\* a configuration operation of client c that returns err: the caller is not
\* holding the result of a dispatch call, and holds err afterwards
Done(c, err) == ~IsCall(last) /\ last' = NoCall("idle", c, err) /\ UNCHANGED running

\* the caller takes the response and the error of the dispatch call and goes on
Receive ==
    /\ IsCall(last)
    /\ last' = NoCall("idle", last.c, NoErr)
    /\ UNCHANGED <<alive, base, reqMutators, resMutators, headers, query, client,
                   marshaler, unmarshaler, arr, running>>

\* (variant) the stored set is returned as it is, nil included
HeadersAsStored(c) == headers[c]
\* client.Headers: the stored set; an empty one is stored first if it is nil
HeadersOf(c) == IF headers[c].nil THEN EmptyMap ELSE headers[c]
Headers(c) ==
    /\ c \in alive /\ ~IsCall(last)
    /\ headers' = [headers EXCEPT ![c] = HeadersOf(c)]
    /\ last' = [NoCall("idle", c, NoErr) EXCEPT !.ret = HeadersOf(c)]
    /\ UNCHANGED <<alive, base, reqMutators, resMutators, query, client, marshaler,
                   unmarshaler, arr, running>>

\* client.Query
QueryOf(c) == IF query[c].nil THEN EmptyMap ELSE query[c]
Query(c) ==
    /\ c \in alive /\ ~IsCall(last)
    /\ query' = [query EXCEPT ![c] = QueryOf(c)]
    /\ last' = [NoCall("idle", c, NoErr) EXCEPT !.ret = QueryOf(c)]
    /\ UNCHANGED <<alive, base, reqMutators, resMutators, headers, client, marshaler,
                   unmarshaler, arr, running>>

\* M[k] = vs for a list vs the caller has just built: it gets an array of its own
Store(M, k, vs) ==
    LET i == LowestOf(FreeIds, 1)[1]
    IN [M |-> [nil |-> FALSE, m |-> Bind(M.m, k, i)], heap |-> [arr EXCEPT ![i] = vs]]
\* M.Add(k, v): M[k] = append(M[k], v), the longer list in a new array
AddTo(M, k, v) == Store(M, k, (IF k \in DOMAIN M.m THEN arr[M.m[k]] ELSE <<>>) \o <<v>>)
\* a map literal lit (key -> list) stored as a new map, each list in its own array
RECURSIVE PutAll(_, _, _)
PutAll(lit, ks, ids) ==
    IF ks = {} THEN [m |-> EmptyFn, heap |-> arr]
    ELSE LET k == CHOOSE x \in ks : TRUE
             rest == PutAll(lit, ks \ {k}, Tail(ids))
         IN [m |-> Bind(rest.m, k, ids[1]), heap |-> [rest.heap EXCEPT ![ids[1]] = lit[k]]]

ListLen(M, k) == IF k \in DOMAIN M.m THEN Len(arr[M.m[k]]) ELSE 0

ConfigFrame == UNCHANGED <<alive, base, reqMutators, resMutators, client, marshaler, unmarshaler>>

\* the default sets hs, qs and the heap h become the state
Settle(hs, qs, h) ==
    \E n \in {Normal(hs, qs, h, alive)} :
        headers' = n.headers /\ query' = n.query /\ arr' = n.arr

\* c.Headers()[k] = vs, c.Headers().Set(k, v)
HeadersSet(c, k, vs) ==
    /\ c \in alive /\ FreeIds # {}
    /\ \E st \in {Store(HeadersOf(c), k, vs)} :
          Settle([headers EXCEPT ![c] = st.M], query, st.heap)
    /\ Done(c, NoErr)
    /\ ConfigFrame

\* c.Headers().Add(k, v)
HeadersAdd(c, k, v) ==
    /\ c \in alive /\ FreeIds # {} /\ ListLen(HeadersOf(c), k) < MaxVals
    /\ \E st \in {AddTo(HeadersOf(c), k, v)} :
          Settle([headers EXCEPT ![c] = st.M], query, st.heap)
    /\ Done(c, NoErr)
    /\ ConfigFrame

\* c.Headers().Del(k)
HeadersDel(c, k) ==
    /\ c \in alive /\ k \in DOMAIN headers[c].m
    /\ Settle([headers EXCEPT ![c] = [nil |-> FALSE, m |-> Unbind(@.m, k)]], query, arr)
    /\ Done(c, NoErr)
    /\ ConfigFrame

\* c.Headers()[k][i] = v: the stored list is changed in place
HeadersEdit(c, k, i, v) ==
    /\ c \in alive /\ k \in DOMAIN headers[c].m /\ i \in 1 .. ListLen(headers[c], k)
    /\ arr' = [arr EXCEPT ![headers[c].m[k]] = [@ EXCEPT ![i] = v]]
    /\ Done(c, NoErr)
    /\ UNCHANGED <<headers, query>> /\ ConfigFrame

\* client.SetHeaders(h): h is nil or a map the caller has just built
SetHeaders(c, h) ==
    /\ c \in alive /\ Cardinality(FreeIds) >= Cardinality(DOMAIN h.m)
    /\ LET ids == LowestOf(FreeIds, Cardinality(DOMAIN h.m))
           all == PutAll(h.m, DOMAIN h.m, ids)
       IN Settle([headers EXCEPT ![c] = [nil |-> h.nil, m |-> all.m]], query, all.heap)
    /\ Done(c, NoErr)
    /\ ConfigFrame

\* c.Query()[k] = vs, c.Query().Set(k, v)
QuerySet(c, k, vs) ==
    /\ c \in alive /\ FreeIds # {}
    /\ \E st \in {Store(QueryOf(c), k, vs)} :
          Settle(headers, [query EXCEPT ![c] = st.M], st.heap)
    /\ Done(c, NoErr)
    /\ ConfigFrame

\* c.Query().Add(k, v)
QueryAdd(c, k, v) ==
    /\ c \in alive /\ FreeIds # {} /\ ListLen(QueryOf(c), k) < MaxVals
    /\ \E st \in {AddTo(QueryOf(c), k, v)} :
          Settle(headers, [query EXCEPT ![c] = st.M], st.heap)
    /\ Done(c, NoErr)
    /\ ConfigFrame

\* c.Query().Del(k)
QueryDel(c, k) ==
    /\ c \in alive /\ k \in DOMAIN query[c].m
    /\ Settle(headers, [query EXCEPT ![c] = [nil |-> FALSE, m |-> Unbind(@.m, k)]], arr)
    /\ Done(c, NoErr)
    /\ ConfigFrame

\* c.Query()[k][i] = v
QueryEdit(c, k, i, v) ==
    /\ c \in alive /\ k \in DOMAIN query[c].m /\ i \in 1 .. ListLen(query[c], k)
    /\ arr' = [arr EXCEPT ![query[c].m[k]] = [@ EXCEPT ![i] = v]]
    /\ Done(c, NoErr)
    /\ UNCHANGED <<headers, query>> /\ ConfigFrame

\* client.SetQuery(q)
SetQuery(c, q) ==
    /\ c \in alive /\ Cardinality(FreeIds) >= Cardinality(DOMAIN q.m)
    /\ LET ids == LowestOf(FreeIds, Cardinality(DOMAIN q.m))
           all == PutAll(q.m, DOMAIN q.m, ids)
       IN Settle(headers, [query EXCEPT ![c] = [nil |-> q.nil, m |-> all.m]], all.heap)
    /\ Done(c, NoErr)
    /\ ConfigFrame

\* client.AddRequestMutators(rm...)
AddRequestMutators(c, rm) ==
    /\ c \in alive /\ Len(reqMutators[c]) + Len(rm) <= MaxMut
    /\ reqMutators' = [reqMutators EXCEPT ![c] = @ \o rm]
    /\ Done(c, NoErr)
    /\ UNCHANGED <<alive, base, resMutators, headers, query, client, marshaler, unmarshaler, arr>>

\* client.AddResponseMutators(rm...)
AddResponseMutators(c, rm) ==
    /\ c \in alive /\ Len(resMutators[c]) + Len(rm) <= MaxMut
    /\ resMutators' = [resMutators EXCEPT ![c] = @ \o rm]
    /\ Done(c, NoErr)
    /\ UNCHANGED <<alive, base, reqMutators, headers, query, client, marshaler, unmarshaler, arr>>

\* (variant) SetRequestMutators stores its list as the response mutators
SetRequestMutatorsAsResponse(c, rm) ==
    /\ c \in alive /\ Len(rm) <= MaxMut
    /\ resMutators' = [resMutators EXCEPT ![c] = rm]
    /\ Done(c, NoErr)
    /\ UNCHANGED <<alive, base, reqMutators, headers, query, client, marshaler, unmarshaler, arr>>

\* client.SetRequestMutators(rm...)
SetRequestMutators(c, rm) ==
    /\ c \in alive /\ Len(rm) <= MaxMut
    /\ reqMutators' = [reqMutators EXCEPT ![c] = rm]
    /\ Done(c, NoErr)
    /\ UNCHANGED <<alive, base, resMutators, headers, query, client, marshaler, unmarshaler, arr>>

\* client.SetResponseMutators(rm...)
SetResponseMutators(c, rm) ==
    /\ c \in alive /\ Len(rm) <= MaxMut
    /\ resMutators' = [resMutators EXCEPT ![c] = rm]
    /\ Done(c, NoErr)
    /\ UNCHANGED <<alive, base, reqMutators, headers, query, client, marshaler, unmarshaler, arr>>

\* client.RequestMutators
RequestMutators(c) ==
    /\ c \in alive /\ ~IsCall(last)
    /\ last' = [NoCall("idle", c, NoErr) EXCEPT !.retList = reqMutators[c]]
    /\ UNCHANGED <<alive, base, reqMutators, resMutators, headers, query, client,
                   marshaler, unmarshaler, arr, running>>

\* client.ResponseMutators
ResponseMutators(c) ==
    /\ c \in alive /\ ~IsCall(last)
    /\ last' = [NoCall("idle", c, NoErr) EXCEPT !.retList = resMutators[c]]
    /\ UNCHANGED <<alive, base, reqMutators, resMutators, headers, query, client,
                   marshaler, unmarshaler, arr, running>>

\* (variant) the query of u is kept
SetBaseUrlKeepingQuery(c, u) ==
    /\ c \in alive
    /\ IF u.nil
       THEN /\ Done(c, ErrNilUrl)
            /\ UNCHANGED base
       ELSE /\ base' = [base EXCEPT ![c] = u.url]
            /\ Done(c, NoErr)
    /\ UNCHANGED <<alive, reqMutators, resMutators, headers, query, client, marshaler,
                   unmarshaler, arr>>

\* client.SetBaseUrl(u): u is [nil, url]; the query of u is cleared
SetBaseUrl(c, u) ==
    /\ c \in alive
    /\ IF u.nil
       THEN /\ Done(c, ErrNilUrl)
            /\ UNCHANGED base
       ELSE /\ base' = [base EXCEPT ![c] = [u.url EXCEPT !.RawQuery = <<>>]]
            /\ Done(c, NoErr)
    /\ UNCHANGED <<alive, reqMutators, resMutators, headers, query, client, marshaler,
                   unmarshaler, arr>>

\* c.BaseUrl().Path = p: BaseUrl returns the stored URL itself
BaseUrlSetPath(c, p) ==
    /\ c \in alive
    /\ base' = [base EXCEPT ![c] = [@ EXCEPT !.Path = p]]
    /\ Done(c, NoErr)
    /\ UNCHANGED <<alive, reqMutators, resMutators, headers, query, client, marshaler,
                   unmarshaler, arr>>

\* c.BaseUrl().RawQuery = q
BaseUrlSetRawQuery(c, q) ==
    /\ c \in alive
    /\ base' = [base EXCEPT ![c] = [@ EXCEPT !.RawQuery = q]]
    /\ Done(c, NoErr)
    /\ UNCHANGED <<alive, reqMutators, resMutators, headers, query, client, marshaler,
                   unmarshaler, arr>>

\* copy(dst, src) into a slice made with len(src)
\* (variant) nothing of the list is copied
CopyOfNothing(ms) == <<>>
CopyOf(ms) == [i \in 1 .. Len(ms) |-> ms[i]]

\* (variant) the clone does not get the transport handle
CloneWithoutTransport(c) ==
    /\ c \in alive /\ Other(c) \notin alive
    /\ alive' = alive \cup {Other(c)}
    /\ base' = [base EXCEPT ![Other(c)] = cloneUrl(base[c])]
    /\ reqMutators' = [reqMutators EXCEPT ![Other(c)] = CopyOf(reqMutators[c])]
    /\ resMutators' = [resMutators EXCEPT ![Other(c)] = CopyOf(resMutators[c])]
    /\ headers' = [headers EXCEPT ![Other(c)] = headerCopy(headers[c])]
    /\ query' = [query EXCEPT ![Other(c)] = queryCopy(query[c])]
    /\ client' = [client EXCEPT ![Other(c)] = NoHandle]
    /\ marshaler' = [marshaler EXCEPT ![Other(c)] = marshaler[c]]
    /\ unmarshaler' = [unmarshaler EXCEPT ![Other(c)] = unmarshaler[c]]
    /\ ~IsCall(last) /\ last' = NoCall("Clone", c, NoErr)
    /\ UNCHANGED <<arr, running>>

\* client.Clone: the clone is the other client object
Clone(c) ==
    /\ c \in alive /\ Other(c) \notin alive
    /\ alive' = alive \cup {Other(c)}
    /\ base' = [base EXCEPT ![Other(c)] = cloneUrl(base[c])]
    /\ reqMutators' = [reqMutators EXCEPT ![Other(c)] = CopyOf(reqMutators[c])]
    /\ resMutators' = [resMutators EXCEPT ![Other(c)] = CopyOf(resMutators[c])]
    /\ headers' = [headers EXCEPT ![Other(c)] = headerCopy(headers[c])]
    /\ query' = [query EXCEPT ![Other(c)] = queryCopy(query[c])]
    /\ client' = [client EXCEPT ![Other(c)] = client[c]]
    /\ marshaler' = [marshaler EXCEPT ![Other(c)] = marshaler[c]]
    /\ unmarshaler' = [unmarshaler EXCEPT ![Other(c)] = unmarshaler[c]]
    /\ ~IsCall(last) /\ last' = NoCall("Clone", c, NoErr)
    /\ UNCHANGED <<arr, running>>

\* client.GetHttpClient as an operation: it stores the default handle
GetHttpClientCall(c) ==
    /\ c \in alive /\ ~IsCall(last)
    /\ client' = [client EXCEPT ![c] = GetHttpClient(c)]
    /\ last' = [NoCall("idle", c, NoErr) EXCEPT !.retClient = GetHttpClient(c)]
    /\ UNCHANGED <<alive, base, reqMutators, resMutators, headers, query, marshaler,
                   unmarshaler, arr, running>>

\* client.SetHttpClient(h)
SetHttpClient(c, h) ==
    /\ c \in alive
    /\ client' = [client EXCEPT ![c] = h]
    /\ Done(c, NoErr)
    /\ UNCHANGED <<alive, base, reqMutators, resMutators, headers, query, marshaler,
                   unmarshaler, arr>>

\* client.SetMarshaler(f)
SetMarshaler(c, f) ==
    /\ c \in alive
    /\ marshaler' = [marshaler EXCEPT ![c] = f]
    /\ Done(c, NoErr)
    /\ UNCHANGED <<alive, base, reqMutators, resMutators, headers, query, client,
                   unmarshaler, arr>>

\* client.SetUnmarshaler(f)
SetUnmarshaler(c, f) ==
    /\ c \in alive
    /\ unmarshaler' = [unmarshaler EXCEPT ![c] = f]
    /\ Done(c, NoErr)
    /\ UNCHANGED <<alive, base, reqMutators, resMutators, headers, query, client,
                   marshaler, arr>>

\* SetupForJson(c): the JSON codec pair and the two header mutators
SetupForJson(c) ==
    /\ c \in alive /\ Len(reqMutators[c]) + 2 <= MaxMut
    /\ marshaler' = [marshaler EXCEPT ![c] = JsonMarshalerFunc]
    /\ unmarshaler' = [unmarshaler EXCEPT ![c] = JsonUnmarshalerFunc]
    /\ reqMutators' = [reqMutators EXCEPT
                          ![c] = (@ \o <<"JsonContentTypeMutator">>) \o <<"JsonAcceptMutator">>]
    /\ Done(c, NoErr)
    /\ UNCHANGED <<alive, base, resMutators, headers, query, client, arr>>

\* ------------------------------------------------------------------ start
\* (variant) a client is made for a nil base as well
NewWithoutNilCheck(u) ==
    /\ alive = {1}
    /\ base = [c \in Clients |-> IF c = 1 THEN u.url ELSE NilUrl.url]
    /\ reqMutators = [c \in Clients |-> <<>>]
    /\ resMutators = [c \in Clients |-> <<>>]
    /\ headers = [c \in Clients |-> NilMap]
    /\ query = [c \in Clients |-> NilMap]
    /\ client = [c \in Clients |-> NoHandle]
    /\ marshaler = [c \in Clients |-> NoFunc]
    /\ unmarshaler = [c \in Clients |-> NoFunc]
    /\ arr = [i \in ArrIds |-> <<>>]
    /\ last = [NoCall("New", 1, NoErr) EXCEPT !.u = u]
    /\ running = [t \in Goroutines |-> Resting]

\* New(base): base is [nil, url].  A nil base gives an error and no client;
\* any other is stored as it is.  The caller keeps base in last.u.
New(u) ==
    /\ alive = IF u.nil THEN {} ELSE {1}
    /\ base = [c \in Clients |-> IF c = 1 /\ ~u.nil THEN u.url ELSE NilUrl.url]
    /\ reqMutators = [c \in Clients |-> <<>>]
    /\ resMutators = [c \in Clients |-> <<>>]
    /\ headers = [c \in Clients |-> NilMap]
    /\ query = [c \in Clients |-> NilMap]
    /\ client = [c \in Clients |-> NoHandle]
    /\ marshaler = [c \in Clients |-> NoFunc]
    /\ unmarshaler = [c \in Clients |-> NoFunc]
    /\ arr = [i \in ArrIds |-> <<>>]
    /\ last = [NoCall("New", 1, IF u.nil THEN ErrNilUrl ELSE NoErr) EXCEPT !.u = u]
    /\ running = [t \in Goroutines |-> Resting]

\* --------------------------------------------------------- specifications
InitUrl == MkUrl(NoUser, <<"/", "b">>, <<>>, "")
Init == New(SomeUrl(InitUrl))

Statuses == {200, 404, 500}
BodyW == <<119>>
BodyHi == <<104, 105>>

\* the request side of a call: mutator lists of every shape, every codec,
\* every kind of body
RequestBodies == {NoBody, StringBody(BodyHi), StructBody, ChanBody}
RequestAnswers == {TransportError, Answer(200, 0, <<>>, FALSE)}
NextRequest ==
    \/ \E m \in {"rmOk", "rmFailA", "rmFailB"} : AddRequestMutators(1, <<m>>)
    \/ SetRequestMutators(1, <<>>)
    \/ \E f \in {NoFunc, JsonMarshalerFunc} : SetMarshaler(1, f)
    \/ \E tr \in RequestAnswers : Get(1, <<"s">>, NilMap, NilMap, NilUnmarshalMap, tr)
    \/ \E tr \in RequestAnswers, b \in RequestBodies :
          Post(1, <<"s">>, NilMap, NilMap, b, NilUnmarshalMap, tr)
    \/ \E tr \in RequestAnswers, b \in RequestBodies :
          Put(1, <<"s">>, NilMap, NilMap, b, NilUnmarshalMap, tr)
    \/ \E tr \in RequestAnswers, b \in RequestBodies :
          Patch(1, <<"s">>, NilMap, NilMap, b, NilUnmarshalMap, tr)
    \/ \E tr \in RequestAnswers : HeadVerb(1, <<"s">>, NilMap, NilMap, tr)
    \/ \E tr \in RequestAnswers, b \in RequestBodies :
          Options(1, <<"s">>, NilMap, NilMap, b, NilUnmarshalMap, tr)
    \/ \E tr \in RequestAnswers : Delete(1, <<"s">>, NilMap, NilMap, NilUnmarshalMap, tr)
    \/ Receive
SpecRequest == Init /\ [][NextRequest]_vars

\* the response side of a call: what the transport answers, response mutator
\* lists of every shape, every unmarshaler, several status-to-destination maps
ResponseAnswers ==
    {TransportError,
     Answer(200, 1, BodyW, FALSE), Answer(404, -1, BodyW, FALSE), Answer(500, 1, BodyW, FALSE),
     Answer(200, 0, <<>>, FALSE), Answer(200, 1, BodyW, TRUE)}
UnmarshalMaps ==
    {NilUnmarshalMap,
     [nil |-> FALSE, m |-> [s \in {200, 404} |-> IF s = 200 THEN 1 ELSE 2]],
     [nil |-> FALSE, m |-> [s \in {200, 404} |-> IF s = 200 THEN 3 ELSE NilDest]]}
NextResponse ==
    \/ \E m \in {"smOk", "smFailA", "smFailB"} : AddResponseMutators(1, <<m>>)
    \/ SetResponseMutators(1, <<>>)
    \/ \E ms \in {<<>>, <<"rmFailA">>} : SetRequestMutators(1, ms)
    \/ \E f \in {NoFunc, JsonUnmarshalerFunc} : SetUnmarshaler(1, f)
    \/ \E tr \in ResponseAnswers, um \in UnmarshalMaps : Get(1, <<"s">>, NilMap, NilMap, um, tr)
    \/ \E tr \in ResponseAnswers, um \in UnmarshalMaps, b \in {NoBody, StructBody} :
          Post(1, <<"s">>, NilMap, NilMap, b, um, tr)
    \/ \E tr \in ResponseAnswers, um \in UnmarshalMaps : Put(1, <<"s">>, NilMap, NilMap, NoBody, um, tr)
    \/ \E tr \in ResponseAnswers, um \in UnmarshalMaps : Patch(1, <<"s">>, NilMap, NilMap, NoBody, um, tr)
    \/ \E tr \in ResponseAnswers : HeadVerb(1, <<"s">>, NilMap, NilMap, tr)
    \/ \E tr \in ResponseAnswers, um \in UnmarshalMaps :
          Options(1, <<"s">>, NilMap, NilMap, NoBody, um, tr)
    \/ \E tr \in ResponseAnswers, um \in UnmarshalMaps : Delete(1, <<"s">>, NilMap, NilMap, um, tr)
    \/ Receive
SpecResponse == Init /\ [][NextResponse]_vars

\* a client, its clone, and changes to the defaults, the base URL and the
\* mutator lists of either
OtherUrl == MkUrl(UserPassword("u", "p"), <<"/", "x">>, <<>>, "")
CloneAnswer == Answer(200, 0, <<>>, FALSE)
NextClone ==
    \/ Clone(1)
    \/ \E c \in Clients : HeadersSet(c, "Accept", <<"a">>)
    \/ \E c \in Clients : HeadersAdd(c, "Accept", "b")
    \/ \E c \in Clients : HeadersEdit(c, "Accept", 1, "b")
    \/ \E c \in Clients : HeadersDel(c, "Accept")
    \/ SetHeaders(2, NilMap)
    \/ QuerySet(1, "testquery", <<"a">>)
    \/ \E c \in Clients : QueryEdit(c, "testquery", 1, "b")
    \/ SetBaseUrl(2, SomeUrl(OtherUrl))
    \/ BaseUrlSetPath(1, <<"/", "x">>)
    \/ AddRequestMutators(1, <<"rmOk">>)
    \/ SetResponseMutators(2, <<"smOk">>)
    \/ Get(2, <<"s">>, NilMap, NilMap, NilUnmarshalMap, CloneAnswer)
    \/ Receive
SpecClone == Init /\ [][NextClone]_vars

\* a client with a transport handle of its own or the default one, its clone,
\* changes to the configuration of either, and calls through both
NextTransport ==
    \/ Clone(1)
    \/ SetHttpClient(1, "T1")
    \/ \E c \in Clients : GetHttpClientCall(c)
    \/ \E c \in Clients : HeadersSet(c, "Accept", <<"a">>)
    \/ QuerySet(2, "testquery", <<"a">>)
    \/ SetBaseUrl(1, SomeUrl(OtherUrl))
    \/ AddRequestMutators(2, <<"rmOk">>)
    \/ SetResponseMutators(1, <<"smOk">>)
    \/ \E c \in Clients : Get(c, <<"s">>, NilMap, NilMap, NilUnmarshalMap, CloneAnswer)
    \/ Receive
SpecTransport == Init /\ [][NextTransport]_vars

\* default sets of every shape, per-call sets that add to them and replace in
\* them, and request mutators that change the merged set
OneKey(k, vs) == [nil |-> FALSE, m |-> [x \in {k} |-> vs]]
MergeHeaders == {NilMap, EmptyMap, OneKey("Content-Type", <<"b">>), OneKey("Accept", <<"b">>)}
MergeQueries == {NilMap, OneKey("testquery", <<"b">>), OneKey("multiquery", <<"a", "b">>)}
MergeAnswers == {TransportError, Answer(200, 0, <<>>, FALSE)}
NextMerge ==
    \/ \E k \in HKeys : HeadersSet(1, k, <<"a">>)
    \/ HeadersAdd(1, "Content-Type", "b")
    \/ SetHeaders(1, NilMap)
    \/ QuerySet(1, "testquery", <<"a">>)
    \/ QueryAdd(1, "testquery", "b")
    \/ SetQuery(1, NilMap)
    \/ \E ms \in {<<>>, <<"rmEdit">>, <<"JsonContentTypeMutator">>} : SetRequestMutators(1, ms)
    \/ \E H \in MergeHeaders, Q \in MergeQueries, tr \in MergeAnswers :
          Get(1, <<"s">>, H, Q, NilUnmarshalMap, tr)
    \/ \E H \in MergeHeaders, Q \in MergeQueries :
          Post(1, <<"s">>, H, Q, StructBody, NilUnmarshalMap, TransportError)
    \/ \E H \in MergeHeaders, Q \in MergeQueries :
          Put(1, <<"s">>, H, Q, NoBody, NilUnmarshalMap, TransportError)
    \/ \E H \in MergeHeaders, Q \in MergeQueries :
          Patch(1, <<"s">>, H, Q, NoBody, NilUnmarshalMap, TransportError)
    \/ \E H \in MergeHeaders, Q \in MergeQueries :
          HeadVerb(1, <<"s">>, H, Q, TransportError)
    \/ \E H \in MergeHeaders, Q \in MergeQueries :
          Options(1, <<"s">>, H, Q, NoBody, NilUnmarshalMap, TransportError)
    \/ \E H \in MergeHeaders, Q \in MergeQueries :
          Delete(1, <<"s">>, H, Q, NilUnmarshalMap, TransportError)
    \/ Receive
SpecMerge == Init /\ [][NextMerge]_vars

\* clients made from every kind of base URL (none, with credentials, with a
\* query, with a fragment), base URL updates, clones, and calls with call
\* paths of every shape
BaseUrls ==
    {InitUrl,
     MkUrl(NoUser, <<>>, <<<<"x", "1">>>>, ""),
     MkUrl(UserPassword("u", "p"), <<"/", "b">>, <<<<"x", "1">>>>, "f"),
     MkUrl(User("u"), <<>>, <<>>, "")}
UrlArguments == {NilUrl} \cup {SomeUrl(u) : u \in BaseUrls}
BaseCallPaths == CallPaths \cup {<<"/", ".", ".", "/", "s">>, <<"?">>}
BaseAnswer == Answer(200, 0, <<>>, FALSE)
InitBase == \E u \in UrlArguments : New(u)
NextBase ==
    \/ \E u \in UrlArguments : SetBaseUrl(1, u)
    \/ \E u \in {NilUrl, SomeUrl(OtherUrl)} : SetBaseUrl(2, u)
    \/ Clone(1)
    \/ HeadersSet(1, "Accept", <<"a">>)
    \/ SetRequestMutators(1, <<"rmOk">>)
    \/ \E p \in BaseCallPaths : Get(1, p, NilMap, NilMap, NilUnmarshalMap, BaseAnswer)
    \/ Get(2, <<"s">>, NilMap, NilMap, NilUnmarshalMap, TransportError)
    \/ Post(1, <<"/", "s">>, NilMap, NilMap, NoBody, NilUnmarshalMap, TransportError)
    \/ Receive
SpecBase == InitBase /\ [][NextBase]_vars

\* the codecs: strings of a few byte values (NUL, the quote, a letter) go out
\* as bodies, and the server writes back the bytes it read from the request
Bytes == {0, Quote, 104}
Strings == UNION {[1 .. n -> Bytes] : n \in 0 .. MaxStr}
CodecBodies == {StringBody(s) : s \in Strings} \cup {StringerBody(BodyHi)}
CodecFuncs == {NoFunc, StringMarshalerFunc, JsonMarshalerFunc}
CodecMaps == {[nil |-> FALSE, m |-> [s \in {200} |-> d]] : d \in DestIds}
EchoAnswer(c, b) ==
    Answer(200, -1,
           Marshal(IF marshaler[c] = NoFunc THEN StringMarshalerFunc ELSE marshaler[c], b).r.data,
           FALSE)
NextCodec ==
    \/ \E f \in CodecFuncs : SetMarshaler(1, f)
    \/ \E f \in {NoFunc, StringUnmarshalerFunc, JsonUnmarshalerFunc} : SetUnmarshaler(1, f)
    \/ \E b \in CodecBodies, um \in CodecMaps :
          Post(1, <<"s">>, NilMap, NilMap, b, um, EchoAnswer(1, b))
    \/ \E b \in CodecBodies, um \in CodecMaps :
          Put(1, <<"s">>, NilMap, NilMap, b, um, EchoAnswer(1, b))
    \/ Receive
SpecCodec == Init /\ [][NextCodec]_vars

\* a client set up for JSON, with and without default and per-call
\* Content-Type and Accept headers
JsonAnswers == {TransportError, Answer(200, 0, <<>>, FALSE)}
NextJson ==
    \/ SetupForJson(1)
    \/ AddRequestMutators(1, <<"rmOk">>)
    \/ SetRequestMutators(1, <<>>)
    \/ \E k \in HKeys : HeadersSet(1, k, <<"a">>)
    \/ SetHeaders(1, NilMap)
    \/ \E H \in MergeHeaders, tr \in JsonAnswers : Get(1, <<"s">>, H, NilMap, NilUnmarshalMap, tr)
    \/ \E H \in MergeHeaders, b \in {NoBody, StructBody}, tr \in JsonAnswers :
          Post(1, <<"s">>, H, NilMap, b, NilUnmarshalMap, tr)
    \/ Receive
SpecJson == Init /\ [][NextJson]_vars

\* the getters, after setters given nil and given something, and calls that
\* send what the defaults hold
GetterMaps == {NilMap, OneKey("Accept", <<"b">>)}
GetterAnswers == {TransportError, Answer(200, 0, <<>>, FALSE)}
NextGetters ==
    \/ \E h \in GetterMaps : SetHeaders(1, h)
    \/ SetQuery(1, NilMap)
    \/ \E h \in {NoHandle, "T1"} : SetHttpClient(1, h)
    \/ Headers(1)
    \/ Query(1)
    \/ GetHttpClientCall(1)
    \/ \E k \in HKeys : HeadersSet(1, k, <<"a">>)
    \/ QuerySet(1, "testquery", <<"a">>)
    \/ \E H \in GetterMaps, tr \in GetterAnswers :
          Get(1, <<"s">>, H, NilMap, NilUnmarshalMap, tr)
    \/ Receive
SpecGetters == Init /\ [][NextGetters]_vars

\* whole calls: a body or none, request and response mutator lists of every
\* shape, a transport that fails or answers, a map that decodes or not
OrderBodies == {NoBody, StringBody(BodyHi), ChanBody}
OrderMaps == {NilUnmarshalMap, [nil |-> FALSE, m |-> [s \in {200} |-> 1]]}
OrderAnswers ==
    {TransportError, Answer(200, 1, BodyW, FALSE), Answer(200, 0, <<>>, FALSE),
     Answer(200, -1, BodyW, TRUE)}
NextOrder ==
    \/ \E m \in {"rmOk", "rmFailA"} : AddRequestMutators(1, <<m>>)
    \/ \E m \in {"smOk", "smFailA"} : AddResponseMutators(1, <<m>>)
    \/ SetRequestMutators(1, <<>>)
    \/ SetResponseMutators(1, <<>>)
    \/ \E b \in OrderBodies, um \in OrderMaps, tr \in OrderAnswers :
          Post(1, <<"s">>, NilMap, NilMap, b, um, tr)
    \/ \E um \in OrderMaps, tr \in OrderAnswers : Get(1, <<"s">>, NilMap, NilMap, um, tr)
    \/ Receive
SpecOrder == Init /\ [][NextOrder]_vars

\* the two mutator lists, appended to and replaced, and read back
ReqLists == {<<>>, <<"rmOk">>, <<"rmFailA">>, <<"rmFailA", "rmOk">>}
ResLists == {<<>>, <<"smOk">>, <<"smFailA">>, <<"smFailA", "smOk">>}
NextMutators ==
    \/ \E ms \in ReqLists : AddRequestMutators(1, ms)
    \/ \E ms \in ResLists : AddResponseMutators(1, ms)
    \/ \E ms \in ReqLists : SetRequestMutators(1, ms)
    \/ \E ms \in ResLists : SetResponseMutators(1, ms)
    \/ RequestMutators(1)
    \/ ResponseMutators(1)
    \/ \E tr \in OrderAnswers : Get(1, <<"s">>, NilMap, NilMap, NilUnmarshalMap, tr)
    \/ Receive
SpecMutators == Init /\ [][NextMutators]_vars

\* base URLs with and without a query, given to New or edited through
\* BaseUrl(), with default and per-call queries
NextQuery ==
    \/ \E q \in RawQueries : BaseUrlSetRawQuery(1, q)
    \/ SetBaseUrl(1, SomeUrl(OtherUrl))
    \/ QuerySet(1, "testquery", <<"a">>)
    \/ QueryAdd(1, "multiquery", "b")
    \/ SetQuery(1, NilMap)
    \/ \E Q \in MergeQueries, tr \in MergeAnswers :
          Get(1, <<"s">>, NilMap, Q, NilUnmarshalMap, tr)
    \/ \E Q \in MergeQueries :
          Post(1, <<"/", "s">>, NilMap, Q, StringBody(BodyHi), NilUnmarshalMap, TransportError)
    \/ Receive
SpecQuery == InitBase /\ [][NextQuery]_vars

\* request bodies: none, strings, a struct, under the text, the JSON and the
\* caller's marshaler, past a request mutator or none
BodyBodies == {NoBody, StructBody} \cup CodecBodies
NextBody ==
    \/ \E f \in {NoFunc, JsonMarshalerFunc, StreamMarshalerFunc} : SetMarshaler(1, f)
    \/ \E ms \in {<<>>, <<"rmOk">>} : SetRequestMutators(1, ms)
    \/ \E tr \in MergeAnswers : Get(1, <<"s">>, NilMap, NilMap, NilUnmarshalMap, tr)
    \/ \E b \in BodyBodies, tr \in MergeAnswers :
          Post(1, <<"s">>, NilMap, NilMap, b, NilUnmarshalMap, tr)
    \/ \E b \in BodyBodies : Put(1, <<"s">>, NilMap, NilMap, b, NilUnmarshalMap, TransportError)
    \/ \E b \in BodyBodies : Patch(1, <<"s">>, NilMap, NilMap, b, NilUnmarshalMap, TransportError)
    \/ \E b \in BodyBodies :
          Options(1, <<"s">>, NilMap, NilMap, b, NilUnmarshalMap, TransportError)
    \/ Receive
SpecBody == Init /\ [][NextBody]_vars

\* a client configured in every respect, then cloned, then calls on both
TwinAnswers == {TransportError, Answer(200, 1, BodyW, FALSE)}
TwinMaps == {NilUnmarshalMap, [nil |-> FALSE, m |-> [s \in {200} |-> 1]]}
NextTwin ==
    \/ alive = {1} /\ HeadersSet(1, "Accept", <<"a">>)
    \/ alive = {1} /\ HeadersAdd(1, "Accept", "b")
    \/ alive = {1} /\ QuerySet(1, "testquery", <<"a">>)
    \/ alive = {1} /\ SetBaseUrl(1, SomeUrl(OtherUrl))
    \/ alive = {1} /\ \E ms \in {<<"rmOk">>, <<"rmFailA">>, <<"JsonAcceptMutator", "rmEdit">>} :
                         SetRequestMutators(1, ms)
    \/ alive = {1} /\ \E ms \in {<<"smOk">>, <<"smOk", "smFailA">>} : SetResponseMutators(1, ms)
    \/ alive = {1} /\ SetMarshaler(1, JsonMarshalerFunc)
    \/ alive = {1} /\ SetUnmarshaler(1, JsonUnmarshalerFunc)
    \/ alive = {1} /\ SetHttpClient(1, "T1")
    \/ Clone(1)
    \/ \E c \in Clients, tr \in TwinAnswers :
          Get(c, <<"s">>, NilMap, NilMap, NilUnmarshalMap, tr)
    \/ \E c \in Clients :
          Post(c, <<"s">>, NilMap, NilMap, StringBody(BodyHi), NilUnmarshalMap, TransportError)
    \/ Receive
SpecTwin == Init /\ [][NextTwin]_vars

\* two goroutines calling verbs of one client; the client is configured only
\* while no call is running
NextConcurrent ==
    \/ Quiet /\ \E f \in {NoFunc, JsonMarshalerFunc} : SetMarshaler(1, f)
    \/ Quiet /\ \E f \in {NoFunc, JsonUnmarshalerFunc} : SetUnmarshaler(1, f)
    \/ Quiet /\ \E h \in {NoHandle, "T1"} : SetHttpClient(1, h)
    \/ \E t \in Goroutines : Enter(t, 1)
    \/ \E t \in Goroutines : prepareRequestReads(t)
    \/ \E t \in Goroutines : prepareRequestDefault(t)
    \/ \E t \in Goroutines : doReads(t)
    \/ \E t \in Goroutines : GetHttpClientDefault(t)
    \/ \E t \in Goroutines, answered \in BOOLEAN : doTransport(t, answered)
    \/ \E t \in Goroutines : doDefault(t)
    \/ \E t \in Goroutines : Return(t)
SpecConcurrent == Init /\ [][NextConcurrent]_vars

\* ------------------------------------------------------------------ claims
Range(q) == {q[i] : i \in 1 .. Len(q)}
Count(l, e) == Cardinality({i \in 1 .. Len(l.log) : l.log[i].e = e})
ReqFails(m) == m \in {"rmFailA", "rmFailB"}
ReqErrorOf(m) == IF m = "rmFailA" THEN "errReqA" ELSE "errReqB"
ResFails(m) == m \in {"smFailA", "smFailB"}
ResErrorOf(m) == IF m = "smFailA" THEN "errResA" ELSE "errResB"
\* the call's body is one the marshaler in use rejects
MarshalFails(l) ==
    /\ ~l.body.nil
    /\ \/ marshaler[l.c] = StringMarshalerFunc /\ l.body.type \notin {"string", "Stringer"}
       \/ marshaler[l.c] = JsonMarshalerFunc /\ l.body.type = "chan"
MarshalErrorOf(l) ==
    IF marshaler[l.c] = JsonMarshalerFunc THEN ErrJsonUnsupportedType ELSE ErrMarshalText

\* C1: when request mutator i fails, the call returns no response and that
\* mutator's error; no later request mutator, no transport invocation, no
\* response mutator and no unmarshaler runs.  Mutator i is reached whenever
\* the request was built and the mutators before it succeeded.
C1_RequestMutatorFailureAborts ==
    IsCall(last) =>
        \A i \in 1 .. Len(reqMutators[last.c]) :
            /\ (/\ ~MarshalFails(last)
                /\ ReqFails(reqMutators[last.c][i])
                /\ \A j \in 1 .. (i - 1) : ~ReqFails(reqMutators[last.c][j]))
               => Ev("reqmut", i) \in Range(last.log)
            /\ (Ev("reqmut", i) \in Range(last.log) /\ ReqFails(reqMutators[last.c][i]))
               => /\ last.resp.nil
                  /\ last.err = ReqErrorOf(reqMutators[last.c][i])
                  /\ last.log[Len(last.log)] = Ev("reqmut", i)
                  /\ Count(last, "transport") = 0 /\ last.transport = NoHandle
                  /\ Count(last, "resmut") = 0
                  /\ Count(last, "unmarshal") = 0

\* C1 witness: the first of two failing request mutators has failed
C1_Witness ==
    /\ last.op = "DELETE"
    /\ reqMutators[1] = <<"rmFailA", "rmFailB">>
    /\ last.err = "errReqA" /\ last.resp.nil
    /\ ~last.tr.err

\* C2: when the transport answered and response mutator i fails, the call
\* returns that response and that mutator's error; no later response mutator
\* runs, the body is not read and no destination is written.
C2_ResponseMutatorFailureKeepsResponse ==
    IsCall(last) =>
        \A i \in 1 .. Len(resMutators[last.c]) :
            /\ (/\ Count(last, "transport") = 1 /\ ~last.tr.err
                /\ ResFails(resMutators[last.c][i])
                /\ \A j \in 1 .. (i - 1) : ~ResFails(resMutators[last.c][j]))
               => Ev("resmut", i) \in Range(last.log)
            /\ (Ev("resmut", i) \in Range(last.log) /\ ResFails(resMutators[last.c][i]))
               => /\ ~last.resp.nil
                  /\ last.resp.StatusCode = last.tr.StatusCode
                  /\ last.resp.ContentLength = last.tr.ContentLength
                  /\ last.err = ResErrorOf(resMutators[last.c][i])
                  /\ \A j \in (i + 1) .. Len(resMutators[last.c]) :
                        Ev("resmut", j) \notin Range(last.log)
                  /\ Count(last, "read") = 0
                  /\ Count(last, "unmarshal") = 0
                  /\ last.dest = FreshDest

\* C2 witness: the first of two failing response mutators has failed on a
\* response the call would otherwise have decoded
C2_Witness ==
    /\ IsCall(last)
    /\ resMutators[1] = <<"smFailA", "smFailB">>
    /\ last.err = "errResA" /\ ~last.resp.nil
    /\ ~last.unmarshalMap.nil
    /\ last.resp.StatusCode \in DOMAIN last.unmarshalMap.m
    /\ last.unmarshalMap.m[last.resp.StatusCode] = 1
    /\ last.resp.ContentLength > 0

\* C3: when the map holds a destination for the response's status, the body
\* may be there and the unmarshaler fails, the call returns the response and
\* the unmarshaler's error.
C3_DecodeErrorReturned ==
    (/\ IsCall(last)
     /\ Count(last, "unmarshal") = 1
     /\ last.decodeErr # NoErr)
    => (~last.resp.nil /\ last.err = last.decodeErr)

\* the call got as far as the decode step with a body that may be there
Decoding(l) ==
    /\ IsCall(l) /\ ~l.resp.nil
    /\ \A i \in 1 .. Len(resMutators[l.c]) : ~ResFails(resMutators[l.c][i])
    /\ ~l.unmarshalMap.nil
    /\ (l.resp.ContentLength > 0 \/ l.resp.ContentLength = -1)

\* C4: at the decode step the unmarshaler is invoked on the destination
\* stored under the response's exact status code, once, and a *string
\* destination then holds the body; every other destination is left as it
\* was; for a status code that is no key of the map nothing is written, the
\* unmarshaler is not invoked and the call returns the response and no error.
C4_DecodeByExactStatus ==
    Decoding(last) =>
        /\ \A d \in DestIds :
              (last.resp.StatusCode \notin DOMAIN last.unmarshalMap.m
               \/ last.unmarshalMap.m[last.resp.StatusCode] # d)
              => (last.dest[d] = OldValue /\ Ev("unmarshal", d) \notin Range(last.log))
        /\ (/\ last.resp.StatusCode \in DOMAIN last.unmarshalMap.m
            /\ last.unmarshalMap.m[last.resp.StatusCode] # NilDest
            /\ ~last.tr.readErr)
           => /\ Count(last, "unmarshal") = 1
              /\ Ev("unmarshal", last.unmarshalMap.m[last.resp.StatusCode]) \in Range(last.log)
              /\ (/\ unmarshaler[last.c] = StringUnmarshalerFunc
                  /\ DestType(last.unmarshalMap.m[last.resp.StatusCode]) = "*string")
                 => last.dest[last.unmarshalMap.m[last.resp.StatusCode]] = last.tr.Body
        /\ last.resp.StatusCode \notin DOMAIN last.unmarshalMap.m
           => /\ Count(last, "unmarshal") = 0
              /\ last.dest = FreshDest
              /\ last.err = NoErr

\* C4 witness: {200: &success, 404: &failure} and a 404 answer: failure holds
\* the body, success is untouched
C4_Witness ==
    /\ Decoding(last)
    /\ last.resp.StatusCode = 404
    /\ last.unmarshalMap.m[200] = 1 /\ last.unmarshalMap.m[404] = 2
    /\ last.dest[2] = BodyW /\ last.dest[1] = OldValue

\* C5: a call returns a response exactly when the transport was invoked and
\* answered; a transport failure is returned at once with no response; every
\* failure found after the transport answered (response mutator, body read,
\* decode) is returned together with the response; no call returns neither.
C5_ResponseIffTransportAnswered ==
    IsCall(last) =>
        /\ ~last.resp.nil <=> (Count(last, "transport") = 1 /\ ~last.tr.err)
        /\ (Count(last, "transport") = 1 /\ last.tr.err)
           => /\ last.resp.nil /\ last.err = ErrTransport
              /\ last.log[Len(last.log)] = Ev("transport", 0)
        /\ (Count(last, "read") = 1 /\ last.tr.readErr)
           => (~last.resp.nil /\ last.err = ErrRead)
        /\ (Count(last, "unmarshal") = 1 /\ last.decodeErr # NoErr)
           => (~last.resp.nil /\ last.err = last.decodeErr)
        /\ (\E i \in 1 .. Len(resMutators[last.c]) :
               Ev("resmut", i) \in Range(last.log) /\ ResFails(resMutators[last.c][i]))
           => (~last.resp.nil /\ last.err # NoErr)
        /\ ~(last.resp.nil /\ last.err = NoErr)

\* C6: when the marshaler rejects the body of a Post, Put, Patch or Options,
\* the call returns no response and the marshal error, and nothing else of
\* the call takes place.
C6_MarshalFailureAborts ==
    (IsCall(last) /\ MarshalFails(last))
    => /\ last.op \in {"POST", "PUT", "PATCH", "OPTIONS"}
       /\ last.resp.nil
       /\ last.err = MarshalErrorOf(last)
       /\ last.log = <<Ev("marshal", 0)>>
       /\ last.transport = NoHandle
       /\ last.dest = FreshDest

\* C6 witness: the default text marshaler has rejected a struct body of an
\* Options call on a client that has a request mutator
C6_Witness ==
    /\ last.op = "OPTIONS" /\ last.body = StructBody
    /\ marshaler[1] = StringMarshalerFunc
    /\ last.err = ErrMarshalText
    /\ reqMutators[1] # <<>>

\* what a caller observes of client c's configuration through its getters
View(c) ==
    [base |-> base[c],
     headers |-> [nil |-> headers[c].nil, v |-> Content(headers[c], arr)],
     query |-> [nil |-> query[c].nil, v |-> Content(query[c], arr)],
     req |-> reqMutators[c], res |-> resMutators[c]]

\* C7: once a client has a clone, a configuration operation on one of the two
\* (on its default headers or query, an edit inside a value list included, on
\* its base URL or on its mutator lists) leaves what the other one's getters
\* return as it was.
C7_CloneIndependence ==
    [][\A c \in Clients :
          (/\ alive = {1, 2} /\ ~IsCall(last)
           /\ last'.op = "idle" /\ last'.c = c)
          => View(Other(c))' = View(Other(c))]_vars

\* C8: Clone gives the clone the handle GetHttpClient returns for the client
\* (the default one when none is set) and leaves the client's; a step that
\* changes the headers, the query, the base URL or a mutator list of any
\* client changes no client's handle; a call dispatches through the handle
\* GetHttpClient returned before it.
C8_CloneSharesTransport ==
    [][\A c \in Clients :
          /\ (last'.op = "Clone" /\ last'.c = c)
             => /\ GetHttpClient(Other(c))' = GetHttpClient(c)
                /\ GetHttpClient(c)' = GetHttpClient(c)
          /\ (/\ c \in alive
              /\ \/ headers' # headers \/ query' # query \/ arr' # arr \/ base' # base
                 \/ reqMutators' # reqMutators \/ resMutators' # resMutators)
             => GetHttpClient(c)' = GetHttpClient(c)
          /\ (IsCall(last') /\ last'.c = c /\ last'.transport # NoHandle)
             => last'.transport = GetHttpClient(c)]_vars

\* C8 witness: the clone of a client whose handle is T1 has dispatched through
\* T1 after its headers and its request mutators were changed
C8_Witness ==
    /\ alive = {1, 2} /\ client[1] = "T1"
    /\ IsCall(last) /\ last.c = 2 /\ last.transport = "T1"
    /\ Content(headers[2], arr) # Content(headers[1], arr)
    /\ reqMutators[2] # reqMutators[1]

\* D with every key of O replaced by O's value list
MergeOf(D, O) == [k \in DOMAIN D \cup DOMAIN O |-> IF k \in DOMAIN O THEN O[k] ELSE D[k]]

\* C9: the header set and the query set a call merges from the defaults D and
\* the per-call set O are D with every key of O replaced by O's whole value
\* list, and whatever the request mutators do to the merged set, D and O are
\* after the call what they were before it.
C9_MergeReplacesAndIsFresh ==
    IsCall(last) =>
        /\ last.merged = MergeOf(last.pre.headers, last.H.m)
        /\ last.mergedQ = MergeOf(last.pre.query, last.Q.m)
        /\ Content(headers[last.c], arr) = last.pre.headers
        /\ Content(query[last.c], arr) = last.pre.query
        /\ last.Hafter = last.H.m
        /\ last.Qafter = last.Q.m

\* C10: a call, whatever its verb, its per-call sets and its outcome, leaves
\* the base URL, the default headers and the default query of its client as
\* they were before it.
C10_CallLeavesDefaults ==
    IsCall(last) => Defaults(last.c) = last.pre

C12_BaseUrlHasNoQuery ==
    \A c \in alive : base[c].RawQuery = <<>>

\* C13: New(nil) gives an error and no client, New(u) a client whose base URL
\* is u; SetBaseUrl(nil) gives an error and changes no field of any client.
C13_NilUrlIsRefused ==
    /\ [](last.op = "New"
          => IF last.u.nil
             THEN alive = {} /\ last.err = ErrNilUrl
             ELSE alive = {1} /\ last.err = NoErr /\ base[1] = last.u.url)
    /\ [][\A c \in Clients :
             SetBaseUrl(c, NilUrl)
             => /\ last'.err = ErrNilUrl
                /\ UNCHANGED <<alive, base, reqMutators, resMutators, headers, query,
                               client, marshaler, unmarshaler, arr>>]_vars

\* C13 witness: SetBaseUrl(nil) has returned its error to a client that has
\* headers and a request mutator
C13_Witness ==
    /\ last.op = "idle" /\ last.err = ErrNilUrl
    /\ ~headers[last.c].nil /\ reqMutators[last.c] # <<>>

\* the path with the slash a URL text puts before a path that lacks one
Slashed(p) == IF p # <<>> /\ Head(p) # "/" THEN <<"/">> \o p ELSE p

\* C14 (as stated): the path of the request handed to the transport is the
\* base path followed by the call path, nothing inserted.
C14_PathIsConcatenation ==
    (IsCall(last) /\ ~last.sent.nil)
    => last.sent.URL.Path = last.pre.base.Path \o last.path

\* C14 (amended): the path of the request handed to the transport is the base
\* path followed by the call path, with a slash put in front when that does
\* not start with one; nothing else is inserted, removed or resolved, and
\* scheme, credentials and host are the base's.
C14_PathIsConcatenationSlashed ==
    (IsCall(last) /\ ~last.sent.nil)
    => /\ last.sent.URL.Path = Slashed(last.pre.base.Path \o last.path)
       /\ last.sent.URL.Scheme = last.pre.base.Scheme
       /\ last.sent.URL.User = last.pre.base.User
       /\ last.sent.URL.Host = last.pre.base.Host

\* C14 witness: base path /b and a call path with dot segments
C14_Witness ==
    /\ IsCall(last) /\ ~last.sent.nil
    /\ last.pre.base.Path = <<"/", "b">>
    /\ last.path = <<"/", ".", ".", "/", "s">>
    /\ last.sent.URL.Path = <<"/", "b", "/", ".", ".", "/", "s">>

\* the call sent a string through the text marshaler, the server wrote the
\* bytes it read back, and the text unmarshaler was given them for d
TextRoundTrip(l, d) ==
    /\ IsCall(l) /\ ~l.sent.nil /\ l.body.type = "string"
    /\ marshaler[l.c] = StringMarshalerFunc /\ unmarshaler[l.c] = StringUnmarshalerFunc
    /\ l.tr.Body = l.sent.Body.data
    /\ Ev("unmarshal", d) \in Range(l.log)

\* C15: a string marshaled by the text marshaler, read back whole and
\* unmarshaled by the text unmarshaler into a string reference, comes back
\* unchanged and without error; the stream the marshaler returns reports the
\* byte length of the string.
C15_TextRoundTrip ==
    /\ \A d \in DestIds :
          (TextRoundTrip(last, d) /\ DestType(d) = "*string")
          => /\ last.decodeErr = NoErr
             /\ last.dest[d] = last.body.s
    /\ (/\ IsCall(last) /\ ~last.sent.nil /\ last.body.type = "string"
        /\ marshaler[last.c] = StringMarshalerFunc)
       => /\ ReadLenerLen(last.sent.Body) = Len(last.body.s)
          /\ last.sent.ContentLength = Len(last.body.s)

\* C15 witness: a string of a NUL and a quote made the round trip
C15_Witness ==
    /\ TextRoundTrip(last, 1)
    /\ last.body.s = <<0, Quote>>
    /\ last.dest[1] = <<0, Quote>>
    /\ last.sent.ContentLength = 2

\* C16 (as stated): whatever the codec, unmarshaling into a destination that
\* is not a reference fails with the error about passing by reference, and
\* the destination is not written.
C16_ValueDestinationIsRefused ==
    \A d \in DestIds :
       (IsCall(last) /\ Ev("unmarshal", d) \in Range(last.log) /\ DestType(d) # "*string")
       => /\ last.decodeErr \in {ErrByValue, ErrJsonNonPointer}
          /\ last.dest[d] = OldValue

\* http.Header.Get: the first value under the key, "" when there is none
HeaderGet(H, k) == IF k \in DOMAIN H /\ H[k] # <<>> THEN H[k][1] ELSE ""

\* the two mutators SetupForJson appends are in c's list
SetUpForJson(c) ==
    {"JsonContentTypeMutator", "JsonAcceptMutator"} \subseteq Range(reqMutators[c])

\* C17 (as stated): once SetupForJson has run, every request handed to the
\* transport has application/json as the value Header.Get reads for
\* Content-Type and for Accept, whatever the default and per-call headers
\* hold; SetupForJson keeps the mutators registered before it, in order,
\* ahead of the two it appends.
C17_JsonHeadersAreEffective ==
    /\ []((IsCall(last) /\ ~last.sent.nil /\ SetUpForJson(last.c))
           => /\ HeaderGet(last.sent.Header, "Content-Type") = JsonType
              /\ HeaderGet(last.sent.Header, "Accept") = JsonType)
    /\ [][\A c \in Clients :
             SetupForJson(c)
             => reqMutators'[c] =
                   reqMutators[c] \o <<"JsonContentTypeMutator", "JsonAcceptMutator">>]_vars

\* C18: a Head call never runs the marshaler, sends no body, and never reads
\* the response body or runs the unmarshaler, whatever the status code, the
\* content length and the codec; a Get or a Delete call never runs the
\* marshaler and sends no body.
C18_NoBodyVerbs ==
    /\ last.op = "HEAD"
       => /\ Count(last, "marshal") = 0 /\ Count(last, "read") = 0
          /\ Count(last, "unmarshal") = 0
          /\ last.sent.Body.nil /\ last.sent.ContentLength = 0
          /\ last.dest = FreshDest /\ last.decodeErr = NoErr
    /\ last.op \in {"GET", "DELETE"}
       => /\ Count(last, "marshal") = 0
          /\ last.sent.Body.nil /\ last.sent.ContentLength = 0

\* C18 witness: a Head call answered 404 with a body of unknown length, the
\* JSON unmarshaler installed
C18_Witness ==
    /\ last.op = "HEAD" /\ ~last.resp.nil /\ last.err = NoErr
    /\ last.resp.StatusCode = 404 /\ last.resp.ContentLength = -1
    /\ unmarshaler[last.c] = JsonUnmarshalerFunc
    /\ Count(last, "transport") = 1

\* the call recorded in l got past the marshaler and the request mutators
Prepared(l) ==
    /\ ~MarshalFails(l)
    /\ \A i \in 1 .. Len(reqMutators[l.c]) : ~ReqFails(reqMutators[l.c][i])

\* the transport was handed exactly one request, of method m
HandedOne(l, m) ==
    /\ Count(l, "transport") = 1
    /\ ~l.sent.nil /\ l.sent.Method = m

\* the call recorded in last, of a verb whose method is m, as the claim
\* states it: one request of that method, and a response and no error once
\* the transport answers
VerbOutcome(m) ==
    Prepared(last)
    => /\ HandedOne(last, m)
       /\ ~last.tr.err => (~last.resp.nil /\ last.err = NoErr)

\* the same, a response and no error being promised only when no response
\* mutator fails, reading the body does not fail and decoding does not fail
VerbOutcomeAmended(m) ==
    Prepared(last)
    => /\ HandedOne(last, m)
       /\ ~last.tr.err => ~last.resp.nil
       /\ (/\ ~last.tr.err
           /\ \A i \in 1 .. Len(resMutators[last.c]) : ~ResFails(resMutators[last.c][i])
           /\ ~(last.tr.readErr /\ Count(last, "read") > 0)
           /\ last.decodeErr = NoErr)
          => last.err = NoErr

\* C19 (as stated): each verb, when neither the marshaler nor a request
\* mutator fails, hands the transport exactly one request of its own method
\* and, the transport answering, returns a response and no error.
C19_VerbsDispatch ==
    [][LET l == last' IN
       /\ Get(l.c, l.path, l.H, l.Q, l.unmarshalMap, l.tr) => VerbOutcome("GET")'
       /\ Post(l.c, l.path, l.H, l.Q, l.body, l.unmarshalMap, l.tr) => VerbOutcome("POST")'
       /\ Put(l.c, l.path, l.H, l.Q, l.body, l.unmarshalMap, l.tr) => VerbOutcome("PUT")'
       /\ Patch(l.c, l.path, l.H, l.Q, l.body, l.unmarshalMap, l.tr) => VerbOutcome("PATCH")'
       /\ HeadVerb(l.c, l.path, l.H, l.Q, l.tr) => VerbOutcome("HEAD")'
       /\ Options(l.c, l.path, l.H, l.Q, l.body, l.unmarshalMap, l.tr)
             => VerbOutcome("OPTIONS")'
       /\ Delete(l.c, l.path, l.H, l.Q, l.unmarshalMap, l.tr) => VerbOutcome("DELETE")'
      ]_vars

\* C19 (amended): each verb, when neither the marshaler nor a request
\* mutator fails, hands the transport exactly one request of its own method
\* and, the transport answering, returns a response; it returns no error
\* when, besides, no response mutator fails and the body is read and decoded
\* without failure.
C19_VerbsDispatchAmended ==
    [][LET l == last' IN
       /\ Get(l.c, l.path, l.H, l.Q, l.unmarshalMap, l.tr) => VerbOutcomeAmended("GET")'
       /\ Post(l.c, l.path, l.H, l.Q, l.body, l.unmarshalMap, l.tr)
             => VerbOutcomeAmended("POST")'
       /\ Put(l.c, l.path, l.H, l.Q, l.body, l.unmarshalMap, l.tr)
             => VerbOutcomeAmended("PUT")'
       /\ Patch(l.c, l.path, l.H, l.Q, l.body, l.unmarshalMap, l.tr)
             => VerbOutcomeAmended("PATCH")'
       /\ HeadVerb(l.c, l.path, l.H, l.Q, l.tr) => VerbOutcomeAmended("HEAD")'
       /\ Options(l.c, l.path, l.H, l.Q, l.body, l.unmarshalMap, l.tr)
             => VerbOutcomeAmended("OPTIONS")'
       /\ Delete(l.c, l.path, l.H, l.Q, l.unmarshalMap, l.tr) => VerbOutcomeAmended("DELETE")'
      ]_vars

\* C19 witness: a Put call went out as one PUT request and came back with a
\* response and no error, past a response mutator
C19_Witness ==
    /\ last.op = "PUT" /\ HandedOne(last, "PUT")
    /\ ~last.resp.nil /\ last.err = NoErr
    /\ resMutators[last.c] # <<>>

\* C20: Headers() and Query() never return nil: they return the client's
\* stored set, an empty one being stored first when there is none, so that
\* an entry set through the returned value is in the stored set and goes out
\* with the requests made while it is there; GetHttpClient() never returns
\* nil: it returns the handle in use, the shared default when none is set.
C20_GettersNeverNil ==
    /\ [][\A c \in Clients :
             /\ Headers(c)
                => /\ ~last'.ret.nil /\ last'.ret = headers'[c]
                   /\ IF headers[c].nil THEN last'.ret = EmptyMap ELSE last'.ret = headers[c]
             /\ Query(c)
                => /\ ~last'.ret.nil /\ last'.ret = query'[c]
                   /\ IF query[c].nil THEN last'.ret = EmptyMap ELSE last'.ret = query[c]
             /\ GetHttpClientCall(c)
                => /\ last'.retClient # NoHandle /\ last'.retClient = client'[c]
                   /\ last'.retClient = IF client[c] = NoHandle THEN DefaultClient
                                        ELSE client[c]
             /\ \A k \in HKeys :
                  HeadersSet(c, k, <<"a">>)
                  => /\ ~headers'[c].nil /\ k \in DOMAIN headers'[c].m
                     /\ arr'[headers'[c].m[k]] = <<"a">>
                     /\ \A j \in DOMAIN headers[c].m \ {k} :
                           /\ j \in DOMAIN headers'[c].m
                           /\ arr'[headers'[c].m[j]] = arr[headers[c].m[j]]
             /\ QuerySet(c, "testquery", <<"a">>)
                => /\ ~query'[c].nil /\ "testquery" \in DOMAIN query'[c].m
                   /\ arr'[query'[c].m["testquery"]] = <<"a">>]_vars
    /\ []((IsCall(last) /\ ~last.sent.nil)
           => /\ last.transport # NoHandle
              /\ \A k \in DOMAIN last.pre.headers \ DOMAIN last.H.m :
                    /\ k \in DOMAIN last.sent.Header
                    /\ last.sent.Header[k] = last.pre.headers[k]
              /\ last.sent.URL.RawQuery = Encode(last.pre.query))

\* C20 witness: Headers() after SetHeaders(nil) returned the empty set, now
\* stored, with no transport set and a default query in place
C20_Witness ==
    /\ last.op = "idle" /\ last.ret = EmptyMap /\ headers[last.c] = EmptyMap
    /\ client[last.c] = NoHandle /\ ~query[last.c].nil

Rank(e) ==
    CASE e = "marshal" -> 0 [] e = "reqmut" -> 1 [] e = "transport" -> 2
      [] e = "resmut" -> 3 [] e = "read" -> 4 [] e = "unmarshal" -> 5 [] OTHER -> 6

\* the events e of the log, in the order they happened
Events(l, e) == SelectSeq(l.log, LAMBDA x : x.e = e)

\* C22: in every call the marshaler, when a body is supplied, runs before
\* any request mutator; the request mutators run in list order, one after
\* another, all before the transport; the response mutators run in list
\* order, only once the transport has answered, all before the unmarshaler.
C22_EventOrder ==
    IsCall(last)
    => /\ \A i, j \in 1 .. Len(last.log) :
             i < j => Rank(last.log[i].e) <= Rank(last.log[j].e)
       /\ Len(Events(last, "marshal")) = IF last.body.nil THEN 0 ELSE 1
       /\ \A e \in {"reqmut", "resmut"} :
             \A k \in 1 .. Len(Events(last, e)) : Events(last, e)[k].i = k
       /\ Len(Events(last, "reqmut")) <= Len(reqMutators[last.c])
       /\ Len(Events(last, "resmut")) <= Len(resMutators[last.c])
       /\ Len(Events(last, "transport")) = 1
          => Len(Events(last, "reqmut")) = Len(reqMutators[last.c])
       /\ Len(Events(last, "resmut")) > 0
          => (Len(Events(last, "transport")) = 1 /\ ~last.tr.err)
       /\ Len(Events(last, "unmarshal")) > 0
          => Len(Events(last, "resmut")) = Len(resMutators[last.c])

\* C22 witness: a call with a body, two request mutators, two response
\* mutators and a decoded answer
C22_Witness ==
    /\ IsCall(last)
    /\ [i \in 1 .. Len(last.log) |-> last.log[i].e] =
          <<"marshal", "reqmut", "reqmut", "transport", "resmut", "resmut", "read",
            "unmarshal", "close">>

\* the four conditions of decoding, on the call recorded in l
DecodeWanted(l) ==
    /\ ~l.unmarshalMap.nil
    /\ (l.resp.ContentLength > 0 \/ l.resp.ContentLength = -1)
    /\ l.resp.StatusCode \in DOMAIN l.unmarshalMap.m
    /\ l.unmarshalMap.m[l.resp.StatusCode] # NilDest

\* the call recorded in l got a response past the response mutators
Answered(l) ==
    /\ IsCall(l) /\ ~l.resp.nil
    /\ \A i \in 1 .. Len(resMutators[l.c]) : ~ResFails(resMutators[l.c][i])

\* C23: the response body is read and the unmarshaler runs only when a map
\* was supplied, the content length is positive or -1, the map has an entry
\* for the exact status code and that entry is not nil; otherwise decoding is
\* skipped: no destination is written and the response comes back with a nil
\* error.
C23_DecodePolicy ==
    IsCall(last)
    => /\ (Count(last, "read") > 0 \/ Count(last, "unmarshal") > 0)
          => (Answered(last) /\ DecodeWanted(last))
       /\ \A d \in DestIds :
             Ev("unmarshal", d) \in Range(last.log)
             => d = last.unmarshalMap.m[last.resp.StatusCode]
       /\ (Answered(last) /\ ~DecodeWanted(last))
          => /\ Count(last, "read") = 0 /\ Count(last, "unmarshal") = 0
             /\ last.dest = FreshDest
             /\ ~last.resp.nil /\ last.err = NoErr

\* C23 witness: the map's entry for the response's status code is nil, the
\* body has unknown length, and the call returned without decoding
C23_Witness ==
    /\ Answered(last) /\ ~last.unmarshalMap.nil
    /\ last.resp.StatusCode = 404 /\ last.resp.ContentLength = -1
    /\ last.unmarshalMap.m[404] = NilDest
    /\ Count(last, "read") = 0 /\ last.err = NoErr

\* how many times event ev is in the log of l
Times(l, ev) == Cardinality({i \in 1 .. Len(l.log) : l.log[i] = ev})

\* each step of the call recorded in l ran at most once
AtMostOnce(l) ==
    /\ Count(l, "marshal") <= 1 /\ Count(l, "transport") <= 1
    /\ Count(l, "read") <= 1 /\ Count(l, "unmarshal") <= 1
    /\ \A i \in 1 .. MaxMut + 1 :
          Times(l, Ev("reqmut", i)) <= 1 /\ Times(l, Ev("resmut", i)) <= 1

\* the errors raised before the decode step in the call recorded in l
RaisedBeforeDecode(l) ==
    {MarshalErrorOf(l) : x \in {y \in {0} : Count(l, "marshal") = 1 /\ MarshalFails(l)}}
    \cup {ReqErrorOf(reqMutators[l.c][i]) :
             i \in {j \in 1 .. Len(reqMutators[l.c]) :
                      Ev("reqmut", j) \in Range(l.log) /\ ReqFails(reqMutators[l.c][j])}}
    \cup {ErrTransport : x \in {y \in {0} : Count(l, "transport") = 1 /\ l.tr.err}}
    \cup {ResErrorOf(resMutators[l.c][i]) :
             i \in {j \in 1 .. Len(resMutators[l.c]) :
                      Ev("resmut", j) \in Range(l.log) /\ ResFails(resMutators[l.c][j])}}
    \cup {ErrRead : x \in {y \in {0} : Count(l, "read") = 1 /\ l.tr.readErr}}

\* C24 (as stated): within one call the marshaler, each request mutator, the
\* transport, each response mutator and the unmarshaler run at most once,
\* whatever fails, and every error one of them raises is the error the call
\* returns.
C24_NoRetryErrorsReturned ==
    IsCall(last)
    => /\ AtMostOnce(last)
       /\ \A e \in RaisedBeforeDecode(last) : last.err = e
       /\ (Count(last, "unmarshal") = 1 /\ last.decodeErr # NoErr)
          => last.err = last.decodeErr

C26_BaseQueryIsNotSent ==
    (IsCall(last) /\ ~last.sent.nil)
    => last.sent.URL.RawQuery = Encode(MergeOf(last.pre.query, last.Q.m))

\* C26 witness: the base URL carries a query, the call overrides a default
\* query key, and the request carries the call's value only
C26_Witness ==
    /\ IsCall(last) /\ ~last.sent.nil
    /\ last.pre.base.RawQuery # <<>>
    /\ last.pre.query = [k \in {"testquery"} |-> <<"a">>]
    /\ DOMAIN last.Q.m = {"testquery"}
    /\ last.sent.URL.RawQuery = Encode(last.Q.m)
    /\ last.sent.URL.RawQuery # <<>>

\* the bytes the marshaler in use makes of a body it accepts
BytesOf(f, v) ==
    CASE f = JsonMarshalerFunc /\ v.type = "string" -> <<Quote>> \o v.s \o <<Quote>>
      [] f = JsonMarshalerFunc -> <<123, 125>>
      [] OTHER -> v.s

\* C27: when a body is supplied and marshaled, the request handed on has the
\* length the marshaled stream reports, its byte count or -1 when it does
\* not know it, and a body of exactly the marshaled bytes; when no body is
\* supplied the request has no body and content length 0.
C27_BodyAndLength ==
    (IsCall(last) /\ ~last.sent.nil)
    => IF last.body.nil
       THEN last.sent.Body.nil /\ last.sent.ContentLength = 0
       ELSE /\ ~last.sent.Body.nil
            /\ last.sent.Body.data = BytesOf(marshaler[last.c], last.body)
            /\ last.sent.ContentLength =
                  IF marshaler[last.c] = StreamMarshalerFunc THEN -1
                  ELSE Len(last.sent.Body.data)

\* C27 witness: the caller's marshaler streamed a string of two bytes and the
\* request went out with content length -1
C27_Witness ==
    /\ IsCall(last) /\ ~last.sent.nil
    /\ marshaler[last.c] = StreamMarshalerFunc
    /\ last.body = StringBody(<<104, 104>>)
    /\ last.sent.Body.data = <<104, 104>>
    /\ last.sent.ContentLength = -1
    /\ reqMutators[last.c] = <<"rmOk">>

\* what a verb call on client c with these parameters would hand the
\* transport and return, in the current state
OutcomeOf(c, method, path, H, Q, body, unmarshalMap, tr) ==
    Eval(CallHeap(H, Q), LAMBDA h :
    Eval(prepareRequest(c, method, path, H, Q, body, h), LAMBDA p :
    IF p.err # NoErr
    THEN [err |-> p.err, sent |-> NoRequest, resp |-> NoResponse, log |-> p.log,
          dest |-> FreshDest, decodeErr |-> NoErr, transport |-> NoHandle]
    ELSE Eval(do(c, p.r, h, p.log, unmarshalMap, tr), LAMBDA d :
         [err |-> d.err, sent |-> d.sent, resp |-> d.resp, log |-> d.log,
          dest |-> d.dest, decodeErr |-> d.decodeErr, transport |-> d.transport])))

\* the verb calls compared on a client and its clone
TwinCalls ==
    {<<IF b.nil THEN "GET" ELSE "POST", H, Q, b, um, tr>> :
        H \in {NilMap, OneKey("Accept", <<"b">>)},
        Q \in {NilMap, OneKey("testquery", <<"b">>)},
        b \in {NoBody, StringBody(BodyHi), StructBody}, um \in TwinMaps, tr \in TwinAnswers}

\* C28: right after Clone the clone has the client's base URL, default
\* headers, default query, mutator lists, marshaler and unmarshaler, and
\* the same verb call with the same parameters on either hands the transport
\* the same request and has the same outcome.
C28_CloneEquivalent ==
    last.op = "Clone"
    => /\ View(Other(last.c)) = View(last.c)
       /\ marshaler[Other(last.c)] = marshaler[last.c]
       /\ unmarshaler[Other(last.c)] = unmarshaler[last.c]
       /\ \A x \in TwinCalls :
             OutcomeOf(Other(last.c), x[1], <<"s">>, x[2], x[3], x[4], x[5], x[6])
             = OutcomeOf(last.c, x[1], <<"s">>, x[2], x[3], x[4], x[5], x[6])

\* C28 witness: the clone of a client with two Accept values, a default
\* query, another base URL, mutators of both kinds, the JSON codecs and a
\* transport of its own
C28_Witness ==
    /\ last.op = "Clone" /\ alive = {1, 2}
    /\ Content(headers[2], arr) = [k \in {"Accept"} |-> <<"a", "b">>]
    /\ Content(query[2], arr) = [k \in {"testquery"} |-> <<"a">>]
    /\ base[2].Path = OtherUrl.Path
    /\ reqMutators[2] = <<"JsonAcceptMutator", "rmEdit">>
    /\ resMutators[2] = <<"smOk", "smFailA">>
    /\ marshaler[2] = JsonMarshalerFunc /\ unmarshaler[2] = JsonUnmarshalerFunc
    /\ client[2] = "T1"

\* goroutines t and u are both inside a call of the same client
Concurrent(t, u) ==
    /\ t # u /\ running[t].pc # "idle" /\ running[u].pc # "idle"
    /\ running[t].c = running[u].c

\* C29 (as stated): of two dispatch calls running at once on one client,
\* none being a configuration call, neither writes a field of the client
\* that the other reads or writes, on a fresh client as well.
C29_NoConflictBetweenCalls ==
    \A t, u \in Goroutines :
       Concurrent(t, u) => running[t].wr \cap (running[u].rd \cup running[u].wr) = {}

\* C30: on every return of a call after the transport answered, whether all
\* went well, a response mutator failed, the body could not be read, or
\* decoding was done or skipped, the response body has been closed exactly
\* once, last of all; when the transport was not invoked or failed, no body
\* is closed.
C30_BodyClosedOnce ==
    IsCall(last)
    => IF Count(last, "transport") = 1 /\ ~last.tr.err
       THEN /\ ~last.resp.nil
            /\ Count(last, "close") = 1
            /\ last.log[Len(last.log)] = Ev("close", 0)
       ELSE Count(last, "close") = 0 /\ last.resp.nil

\* C30 witness: a response mutator failed and the body was closed
C30_Witness ==
    /\ IsCall(last) /\ ~last.resp.nil /\ last.err = "errResA"
    /\ Count(last, "close") = 1 /\ Count(last, "read") = 0

====
